---- MODULE Spec2Model ----
(***************************************************************************)
(* Model of the instrumented microservices of final-project (app, auth,    *)
(* db).  One request is processed at a time; a request is a straight-line  *)
(* walk through its handler, suspended at each outbound call, whose        *)
(* outcome is chosen by the environment (the called service or the         *)
(* network).  Spans follow the `with tracer.start_as_current_span(...)`    *)
(* blocks of the handlers, metrics follow the request_counter.add and      *)
(* request_duration.record calls, storage follows the SQL statements.      *)
(* A span's status is what the handler sets with span.set_status; a span   *)
(* whose status was never set keeps "unset".                               *)
(***************************************************************************)
EXTENDS Integers, Sequences, FiniteSets, Bags, TLC

\* ------------------------------------------------------------------ bounds
MaxRequests == 2
MaxTraced == 1
NumTasks == 2
MaxCreates == 2
MaxThreads == 2
MaxCalls == 2
MaxHits == 3

\* --------------------------------------------------------------- constants
\* len(seed_items) in seed_preset_data
NumSeedItems == 3

\* ----------------------------------------------------------------- inputs
NoHeader == "<None>"
Headers == {NoHeader, "", "Bearer tok"}

\* the inbound trace-context header, as the sequence of its fields: absent,
\* not a trace context at all, truncated, carrying an id that is not an id,
\* and well formed
NoTraceparent == <<>>
InvalidIds == {"", "not-an-id"}
InboundHeaders ==
  {NoTraceparent,
   <<"garbage">>,
   <<"00", "4bf92f35", "b7ad6b71">>,
   <<"00", "not-an-id", "b7ad6b71", "01">>,
   <<"00", "4bf92f35", "b7ad6b71", "01">>}
Ids == {"abc-123", "def-456"}
\* values str(uuid.uuid4()) can take
Uuids == {"u1", "u2", "u3"}
Data == {"d1", "d2"}
PresetIds == {"welcome", "status", "info", "other"}
preset_data == {"welcome", "status", "info"}
Usernames == {"", "admin", "guest"}
Passwords == {"", "admin123", "secret"}

AppHandlers == {"create_data", "get_data", "get_preset_data", "list_presets",
                "seed_preset_data"}
AuthHandlers == {"login", "validate_token", "token_info"}
DbAuthorized == {"store_data", "retrieve_data", "list_items", "delete_data"}
DbHandlers == DbAuthorized \cup {"get_user", "create_user"}
Handlers == AppHandlers \cup AuthHandlers \cup DbHandlers
Services == {"app", "auth", "db"}

\* a check `authorization is None` in place of `not authorization`
NotAuthorizationNoneOnly(a) == a = NoHeader

\* `not authorization`: None and the empty string are both falsy
NotAuthorization(a) == a \in {NoHeader, ""}

\* ------------------------------------------------- per-handler literals
Service(h) ==
  IF h \in AppHandlers THEN "app" ELSE IF h \in AuthHandlers THEN "auth" ELSE "db"

Method(h) ==
  CASE h = "create_data" -> "POST"
    [] h = "get_data" -> "GET"
    [] h = "get_preset_data" -> "GET"
    [] h = "list_presets" -> "GET"
    [] h = "seed_preset_data" -> "POST"
    [] h = "login" -> "POST"
    [] h = "validate_token" -> "POST"
    [] h = "token_info" -> "GET"
    [] h = "store_data" -> "POST"
    [] h = "retrieve_data" -> "GET"
    [] h = "list_items" -> "GET"
    [] h = "delete_data" -> "DELETE"
    [] h = "get_user" -> "GET"
    [] h = "create_user" -> "POST"

Endpoint(h) ==
  CASE h = "create_data" -> "/api/data"
    [] h = "get_data" -> "/api/data/{id}"
    [] h = "get_preset_data" -> "/api/preset/{id}"
    [] h = "list_presets" -> "/api/presets"
    [] h = "seed_preset_data" -> "/api/seed"
    [] h = "login" -> "/login"
    [] h = "validate_token" -> "/validate"
    [] h = "token_info" -> "/token/info"
    [] h = "store_data" -> "/store"
    [] h = "retrieve_data" -> "/retrieve/{id}"
    [] h = "list_items" -> "/list"
    [] h = "delete_data" -> "/delete/{id}"
    [] h = "get_user" -> "/user/{username}"
    [] h = "create_user" -> "/user"

RootSpanName(h) ==
  CASE h = "create_data" -> "app.create_data"
    [] h = "get_data" -> "app.get_data"
    [] h = "get_preset_data" -> "app.get_preset"
    [] h = "list_presets" -> "app.list_presets"
    [] h = "seed_preset_data" -> "app.seed_data"
    [] h = "login" -> "auth.login"
    [] h = "validate_token" -> "auth.validate_token"
    [] h = "token_info" -> "auth.token_info"
    [] h = "store_data" -> "db.store_data"
    [] h = "retrieve_data" -> "db.retrieve_data"
    [] h = "list_items" -> "db.list_items"
    [] h = "delete_data" -> "db.delete_data"
    [] h = "get_user" -> "db.get_user"
    [] h = "create_user" -> "db.create_user"

\* the span around the SQL statement of a db handler
ExecSpanName(h) ==
  CASE h \in {"store_data", "create_user"} -> "db.execute_insert"
    [] h \in {"retrieve_data", "list_items", "get_user"} -> "db.execute_select"
    [] h = "delete_data" -> "db.execute_delete"

\* tags of request_counter.add(1, {...}) and request_duration.record(d, {...})
CounterTags(h) == [method |-> Method(h), endpoint |-> Endpoint(h)]
DurationTags(h) == [method |-> Method(h), endpoint |-> Endpoint(h), status |-> "200"]

\* tags of db_operations_counter.add and db_operation_duration.record
DbOpTags(h) ==
  [operation |-> CASE h \in {"store_data", "create_user"} -> "insert"
                   [] h \in {"retrieve_data", "list_items", "get_user"} -> "select"
                   [] h = "delete_data" -> "delete",
   table |-> IF h \in {"get_user", "create_user"} THEN "users" ELSE "items"]

\* ------------------------------------------------- collaborator outcomes
\* what `await client.post/get(..., timeout=5.0)` can produce: a response with
\* a status code and a body (the id of a stored item, the password of a user),
\* or httpx.RequestError (connection refused, timeout)
Pending == [kind |-> "pending", status |-> 0, id |-> "", password |-> ""]
RequestError == [kind |-> "RequestError", status |-> 0, id |-> "", password |-> ""]
Resp(s) == [kind |-> "response", status |-> s, id |-> "", password |-> ""]
RespId(i) == [kind |-> "response", status |-> 200, id |-> i, password |-> ""]
RespUser(p) == [kind |-> "response", status |-> 200, id |-> "", password |-> p]

AuthOutcomes == {Resp(200), Resp(401), Resp(500), RequestError}
StoreOutcomes == {RespId(i) : i \in Ids} \cup {Resp(401), Resp(500), RequestError}
RetrieveOutcomes ==
  {RespId(i) : i \in Ids} \cup {Resp(401), Resp(404), Resp(500), RequestError}
UserOutcomes ==
  {RespUser(p) : p \in Passwords \ {""}} \cup {Resp(404), Resp(500), RequestError}

\* jwt.decode(token, SECRET_KEY, algorithms=[ALGORITHM]): returns the payload
\* or raises ExpiredSignatureError or another InvalidTokenError
JwtOutcomes == {"payload", "ExpiredSignatureError", "InvalidTokenError"}

\* a SQL statement completes or raises sqlite3.Error
SqlOutcomes == {"ok", "sqlite3.Error"}

NoBody == [kind |-> "none", id |-> "", data |-> "", n |-> 0, ids |-> <<>>]
NoResponse == [status |-> 0, body |-> NoBody]
Body(k, i) == [NoBody EXCEPT !.kind = k, !.id = i]
\* raise HTTPException(status_code=s, detail=d): the framework answers with
\* status s and the body {"detail": d}
HTTPException(s, d) == [status |-> s, body |-> Body("detail", d)]

\* the users init_db inserts
default_users ==
  [u \in {"admin", "user1", "testuser"} |->
     CASE u = "admin" -> "admin123" [] u = "user1" -> "password1" [] u = "testuser" -> "testpass"]

VARIABLES
  handler,          \* the handler of the request in progress
  pc,               \* its position in the handler
  authorization,    \* the Authorization header of the request
  arg,              \* its path parameter or data (item_id, preset_id, data)
  credentials,      \* its username and password (login, get_user, create_user)
  drawn,            \* what jwt.decode or the SQL statement of the request did
  spans,            \* the spans the request has started, in order
  stack,            \* the current-span context: indices of the open spans
  log,              \* span open/close events of the request, in order
  calls,            \* outbound calls of the request, in order
  idx,              \* loop index of seed_preset_data
  stored_ids,       \* stored_ids of seed_preset_data
  ret,              \* the pending return value or HTTPException
  response,         \* what the caller receives
  obs,              \* metric observations recorded by the request
  request_counter,  \* http_requests_total, per service
  request_duration, \* http_request_duration_seconds, per service
  db_operations_counter,   \* db_operations_total
  db_operation_duration,   \* db_operation_duration_seconds
  items,            \* the items table: rows [id, data]
  users,            \* the users table: username -> password
  conn,             \* SQLite connections opened and closed by the request
  nreq,             \* requests received so far
  traceparent,      \* the trace-context header of the request
  ctx,              \* the trace context the request runs in
  inbound,          \* the trace-context headers the clients send
  budget,           \* the number of requests the clients send
  t_pc,             \* concurrent requests: where each request task is
  t_authorization,  \* the Authorization header of each
  t_calls,          \* the outcomes of the outbound calls of each
  t_spans,          \* the spans each task has started
  t_scopes,         \* the with-blocks each task is inside: span and context token
  current,          \* the current span, per context
  t_response,       \* the status each caller receives
  http_requests_total,   \* cumulative value of the counter for one tag-set
  http_request_durations, \* number of durations the histogram holds
  lock,             \* holder of the counter's lock
  loaded,           \* the value each task read under the lock
  pending,          \* ended spans buffered for export
  in_flight,        \* size of the batch being exported
  exported,         \* spans the collector received
  dropped,          \* spans of failed batches
  proc,             \* a service process: importing its module, serving, aborted
  registry,         \* the instruments of its meter: [name, kind, unit]
  attempts,         \* the create calls made so far, in order
  recorded,         \* observations recorded by the requests it served
  total_requests,   \* traffic generator: stats["total_requests"]
  successful,       \* stats["successful"]
  failed,           \* stats["failed"]
  errors,           \* stats["errors"]
  latencies,        \* stats["latencies"]
  stats_lock,       \* holder of self.lock
  s_pc,             \* where each thread is in make_request
  s_outcome,        \* what its HTTP request met
  s_tmp,            \* the value it read for a `+= 1`
  s_done,           \* the GET/POST calls it has completed
  s_invalid,        \* the calls with another method it has made
  now,              \* time.time(), in seconds
  duration,         \* --duration
  num_threads,      \* --threads
  main,             \* where run() is
  wake_at,          \* when the sleep of run() ends
  start_time,       \* when run() submitted the workers
  pool,             \* the executor's threads: the task each runs and its end_time
  queue,            \* submitted tasks no thread has taken yet
  spike_start,      \* when spike_worker began
  workers_done,     \* worker futures that completed
  h_pc,             \* lab4: where get_hit_count is
  retries,          \* its retries
  incr_attempts,    \* cache.incr calls it has made
  hits,             \* the value of the redis key 'hits'
  h_result,         \* what the last cache.incr did: the count or the exception
  h_calls           \* requests for / received so far

given == <<handler, authorization, arg, credentials, traceparent, ctx>>
input == <<given, drawn>>
\* what belongs to no request
concurrent == <<t_pc, t_authorization, t_calls, t_spans, t_scopes, current, t_response,
                http_requests_total, http_request_durations, lock, loaded>>
export == <<pending, in_flight, exported, dropped>>
startup == <<proc, registry, attempts, recorded>>
stats == <<total_requests, successful, failed, errors, latencies>>
callers == <<stats_lock, s_pc, s_outcome, s_tmp, s_done, s_invalid>>
generator == <<now, duration, num_threads, main, wake_at, start_time, pool, queue,
               spike_start, workers_done>>
lab4 == <<h_pc, retries, incr_attempts, hits, h_result, h_calls>>
tools == <<stats, callers, generator, lab4>>
outside == <<inbound, budget, concurrent, export, startup, tools>>
tracing == <<spans, stack, log>>
seed == <<idx, stored_ids>>
metrics == <<obs, request_counter, request_duration, db_operations_counter,
             db_operation_duration>>
storage == <<items, users, conn>>

sequential == <<handler, pc, authorization, arg, credentials, spans, stack, log, calls, idx,
          stored_ids, ret, response, obs, request_counter, request_duration,
          db_operations_counter, db_operation_duration, items, users, conn, nreq,
          traceparent, ctx, inbound, budget, drawn>>
vars == <<sequential, concurrent, export, startup, tools>>

\* ------------------------------------------------------- span operations
Top(s) == s[Len(s)]

NewSpan(name, st) ==
  [name |-> name, parent |-> IF st = <<>> THEN 0 ELSE Top(st),
   status |-> "unset", msg |-> "", ended |-> 0]

\* span.set_status(trace.Status(trace.StatusCode.ERROR, msg))
set_status(sp, i, msg) == [sp EXCEPT ![i].status = "error", ![i].msg = msg]

\* the status set on the current (innermost) span and on the root span
set_both(sp, st, msg) == set_status(set_status(sp, Top(st), msg), 1, msg)

\* ending the outermost open span in place of the innermost
ExitTargetOutermost(st) == st[1]

\* leaving a `with` block ends the span that block started: the innermost one
ExitTarget(st) == Top(st)

\* with tracer.start_as_current_span(name) as ...:   (entering the block)
start_as_current_span(name) ==
  /\ spans' = Append(spans, NewSpan(name, stack))
  /\ stack' = Append(stack, Len(spans) + 1)
  /\ log' = Append(log, <<"open", Len(spans) + 1>>)

\* leaving the block, normally or by an exception: the span ends and the
\* previous current span is restored; sp is the span list after the status
\* updates of the same step
end_span(sp) ==
  LET i == ExitTarget(stack) IN
  /\ spans' = [sp EXCEPT ![i].ended = @ + 1]
  /\ stack' = SelectSeq(stack, LAMBDA j : j # i)
  /\ log' = Append(log, <<"close", i>>)

\* ---------------------------------------------------------- metric calls
Observation(name, tags) == [inst |-> name, tags |-> tags]

\* a duration tagged with the requested path (the item or preset id) in place
\* of the literal route template
RecordDurationRequestPath ==
  LET tags == [method |-> Method(handler),
               endpoint |-> IF arg = "" THEN Endpoint(handler) ELSE arg,
               status |-> "200"]
  IN /\ request_duration' = [request_duration EXCEPT
           ![Service(handler)] = @ (+) SetToBag({tags})]
     /\ obs' = Append(obs, Observation("http_request_duration_seconds", tags))
     /\ UNCHANGED <<request_counter, db_operations_counter, db_operation_duration>>

\* request_duration.record(duration, {"method":…, "endpoint":…, "status": "200"})
RecordDuration ==
  /\ request_duration' = [request_duration EXCEPT
        ![Service(handler)] = @ (+) SetToBag({DurationTags(handler)})]
  /\ obs' = Append(obs, Observation("http_request_duration_seconds", DurationTags(handler)))
  /\ UNCHANGED <<request_counter, db_operations_counter, db_operation_duration>>

\* db_operation_duration.record(...); request_duration.record(...)
RecordDbDurations ==
  /\ db_operation_duration' = db_operation_duration (+) SetToBag({DbOpTags(handler)})
  /\ request_duration' = [request_duration EXCEPT
        ![Service(handler)] = @ (+) SetToBag({DurationTags(handler)})]
  /\ obs' = obs \o <<Observation("db_operation_duration_seconds", DbOpTags(handler)),
                     Observation("http_request_duration_seconds", DurationTags(handler))>>
  /\ UNCHANGED <<request_counter, db_operations_counter>>

\* ---------------------------------------------------- traffic generator
\* the threads that call make_request
Threads == 1..MaxThreads

\* TrafficGenerator.__init__: the statistics and the lock
InitStats ==
  /\ total_requests = 0
  /\ successful = 0
  /\ failed = 0
  /\ errors = 0
  /\ latencies = <<>>
  /\ stats_lock = 0
  /\ s_pc = [t \in Threads |-> "idle"]
  /\ s_outcome = [t \in Threads |-> "none"]
  /\ s_tmp = [t \in Threads |-> 0]
  /\ s_done = [t \in Threads |-> 0]
  /\ s_invalid = [t \in Threads |-> 0]

\* the methods a caller passes and what requests.get / requests.post meets:
\* a 2xx status, another status, an exception (refused, timeout=10 passed)
Methods == {"GET", "POST", "PUT"}
HttpOutcomes == {"2xx", "other", "exception"}

RECURSIVE Sum(_, _)
Sum(f, S) == IF S = {} THEN 0 ELSE LET x == CHOOSE y \in S : TRUE
                                   IN f[x] + Sum(f, S \ {x})

\* calls begun so far
Begun == Sum(s_done, Threads) + Sum(s_invalid, Threads)
          + Cardinality({t \in Threads : s_pc[t] # "idle"})

\* make_request(endpoint, method, data): start = time.time(); a method other
\* than GET and POST returns (False, 0, "Invalid method") at once
MakeRequest(t, m) ==
  /\ s_pc[t] = "idle"
  /\ Begun < MaxCalls
  /\ IF m \in {"GET", "POST"}
       THEN /\ s_pc' = [s_pc EXCEPT ![t] = "sending"]
            /\ UNCHANGED s_invalid
       ELSE /\ s_invalid' = [s_invalid EXCEPT ![t] = @ + 1]
            /\ UNCHANGED s_pc
  /\ UNCHANGED <<sequential, concurrent, export, startup, stats, stats_lock, s_outcome,
                 s_tmp, s_done, generator, lab4>>

\* the HTTP request ends: latency and success are computed
Responds(t, o) ==
  /\ s_pc[t] = "sending"
  /\ s_outcome' = [s_outcome EXCEPT ![t] = o]
  /\ s_pc' = [s_pc EXCEPT ![t] = "acquire"]
  /\ UNCHANGED <<sequential, concurrent, export, startup, stats, stats_lock, s_tmp,
                 s_done, s_invalid, generator, lab4>>

\* statistics updated without taking the lock
EnterLockUnguarded(t) == stats_lock' = stats_lock

\* with self.lock: blocks until the lock is free
EnterLock(t) == stats_lock = 0 /\ stats_lock' = t

AcquireLock(t) ==
  /\ s_pc[t] = "acquire"
  /\ EnterLock(t)
  /\ s_pc' = [s_pc EXCEPT ![t] = "load_total"]
  /\ UNCHANGED <<sequential, concurrent, export, startup, stats, s_outcome, s_tmp,
                 s_done, s_invalid, generator, lab4>>

\* self.stats["total_requests"] += 1: the value is read ...
LoadTotal(t) ==
  /\ s_pc[t] = "load_total"
  /\ s_tmp' = [s_tmp EXCEPT ![t] = total_requests]
  /\ s_pc' = [s_pc EXCEPT ![t] = "store_total"]
  /\ UNCHANGED <<sequential, concurrent, export, startup, stats, stats_lock, s_outcome,
                 s_done, s_invalid, generator, lab4>>

\* ... and written back plus one
StoreTotal(t) ==
  /\ s_pc[t] = "store_total"
  /\ total_requests' = s_tmp[t] + 1
  /\ s_pc' = [s_pc EXCEPT ![t] = "load_kind"]
  /\ UNCHANGED <<sequential, concurrent, export, startup, successful, failed, errors,
                 latencies, stats_lock, s_outcome, s_tmp, s_done, s_invalid, generator,
                 lab4>>

\* stats["successful"] += 1, stats["failed"] += 1 or, in the except block,
\* stats["errors"] += 1: the value is read ...
LoadKind(t) ==
  /\ s_pc[t] = "load_kind"
  /\ s_tmp' = [s_tmp EXCEPT ![t] = CASE s_outcome[t] = "2xx" -> successful
                                      [] s_outcome[t] = "other" -> failed
                                      [] s_outcome[t] = "exception" -> errors]
  /\ s_pc' = [s_pc EXCEPT ![t] = "store_kind"]
  /\ UNCHANGED <<sequential, concurrent, export, startup, stats, stats_lock, s_outcome,
                 s_done, s_invalid, generator, lab4>>

\* ... and written back plus one
StoreKind(t) ==
  /\ s_pc[t] = "store_kind"
  /\ successful' = IF s_outcome[t] = "2xx" THEN s_tmp[t] + 1 ELSE successful
  /\ failed' = IF s_outcome[t] = "other" THEN s_tmp[t] + 1 ELSE failed
  /\ errors' = IF s_outcome[t] = "exception" THEN s_tmp[t] + 1 ELSE errors
  /\ s_pc' = [s_pc EXCEPT ![t] = "append"]
  /\ UNCHANGED <<sequential, concurrent, export, startup, total_requests, latencies,
                 stats_lock, s_outcome, s_tmp, s_done, s_invalid, generator, lab4>>

\* self.stats["latencies"].append(latency)
AppendLatency(t) ==
  /\ s_pc[t] = "append"
  /\ latencies' = Append(latencies, "latency")
  /\ s_pc' = [s_pc EXCEPT ![t] = "release"]
  /\ UNCHANGED <<sequential, concurrent, export, startup, total_requests, successful,
                 failed, errors, stats_lock, s_outcome, s_tmp, s_done, s_invalid,
                 generator, lab4>>

\* the with-block is left and make_request returns
ReleaseLock(t) ==
  /\ s_pc[t] = "release"
  /\ stats_lock' = 0
  /\ s_pc' = [s_pc EXCEPT ![t] = "idle"]
  /\ s_outcome' = [s_outcome EXCEPT ![t] = "none"]
  /\ s_tmp' = [s_tmp EXCEPT ![t] = 0]
  /\ s_done' = [s_done EXCEPT ![t] = @ + 1]
  /\ UNCHANGED <<sequential, concurrent, export, startup, stats, s_invalid, generator,
                 lab4>>

NextStats ==
  \/ \E t \in Threads : \E m \in Methods : MakeRequest(t, m)
  \/ \E t \in Threads : \E o \in HttpOutcomes : Responds(t, o)
  \/ \E t \in Threads : AcquireLock(t)
  \/ \E t \in Threads : LoadTotal(t)
  \/ \E t \in Threads : StoreTotal(t)
  \/ \E t \in Threads : LoadKind(t)
  \/ \E t \in Threads : StoreKind(t)
  \/ \E t \in Threads : AppendLatency(t)
  \/ \E t \in Threads : ReleaseLock(t)

\* the clock counts half seconds, so that duration / 2 is a whole number
TicksPerSecond == 2

\* --duration and --threads as given on the command line
Durations == {20, 22}
ThreadCounts == 1..MaxThreads

\* run() sleeps before the spike only if self.duration > 20
SpikeThreshold == 20

\* spike_worker(spike_duration=10, ...)
SpikeDuration == 10

Idle == [task |-> "none", end_time |-> 0]

\* generator = TrafficGenerator(...); generator.run()
Configured ==
  /\ now = 0
  /\ duration \in Durations
  /\ num_threads \in ThreadCounts
  /\ main = "login"
  /\ wake_at = 0
  /\ start_time = 0
  /\ pool = [t \in Threads |-> Idle]
  /\ queue = <<>>
  /\ spike_start = -1
  /\ workers_done = 0

\* if not self.login(): return
Login(ok) ==
  /\ main = "login"
  /\ main' = IF ok THEN "submit" ELSE "finished"
  /\ UNCHANGED <<sequential, concurrent, export, startup, stats, callers, lab4, now,
                 duration, num_threads, wake_at, start_time, pool, queue, spike_start,
                 workers_done>>

\* with ThreadPoolExecutor(max_workers=self.num_threads): one worker is
\* submitted for each thread; if self.duration > 20 run() then sleeps for
\* self.duration / 2
SubmitWorkers ==
  /\ main = "submit"
  /\ start_time' = now
  /\ queue' = [i \in 1..num_threads |-> "worker"]
  /\ IF duration > SpikeThreshold
       THEN /\ main' = "sleep"
            /\ wake_at' = now + (duration * TicksPerSecond) \div 2
       ELSE /\ main' = "wait"
            /\ UNCHANGED wake_at
  /\ UNCHANGED <<sequential, concurrent, export, startup, stats, callers, lab4, now,
                 duration, num_threads, pool, spike_start, workers_done>>

\* the executor hands the oldest queued task to a thread that runs none; it
\* has max_workers = num_threads threads. The task computes its end_time
\* when it begins
Start(t) ==
  /\ t <= num_threads
  /\ pool[t].task = "none"
  /\ queue # <<>>
  /\ queue' = Tail(queue)
  /\ pool' = [pool EXCEPT ![t] =
                 [task |-> Head(queue),
                  end_time |-> now + TicksPerSecond *
                                 (IF Head(queue) = "spike" THEN SpikeDuration
                                                           ELSE duration)]]
  /\ spike_start' = IF Head(queue) = "spike" THEN now ELSE spike_start
  /\ UNCHANGED <<sequential, concurrent, export, startup, stats, callers, lab4, now,
                 duration, num_threads, main, wake_at, start_time, workers_done>>

\* the sleep of run() ends: executor.submit(self.spike_worker, ...)
SubmitSpike ==
  /\ main = "sleep"
  /\ now >= wake_at
  /\ queue' = Append(queue, "spike")
  /\ main' = "wait"
  /\ UNCHANGED <<sequential, concurrent, export, startup, stats, callers, lab4, now,
                 duration, num_threads, wake_at, start_time, pool, spike_start,
                 workers_done>>

\* one round of the loop of worker or spike_worker: while time.time() <
\* end_time: make_request(...), which counts the request under the lock
LoopRequest(t, o) ==
  /\ pool[t].task # "none"
  /\ now < pool[t].end_time
  /\ total_requests < MaxCalls
  /\ total_requests' = total_requests + 1
  /\ successful' = IF o = "2xx" THEN successful + 1 ELSE successful
  /\ failed' = IF o = "other" THEN failed + 1 ELSE failed
  /\ errors' = IF o = "exception" THEN errors + 1 ELSE errors
  /\ latencies' = Append(latencies, "latency")
  /\ UNCHANGED <<sequential, concurrent, export, startup, callers, lab4, generator>>

\* the loop condition fails: the task returns and its thread is free again
LoopExit(t) ==
  /\ pool[t].task # "none"
  /\ now >= pool[t].end_time
  /\ pool' = [pool EXCEPT ![t] = Idle]
  /\ workers_done' = IF pool[t].task = "worker" THEN workers_done + 1
                                                ELSE workers_done
  /\ UNCHANGED <<sequential, concurrent, export, startup, stats, callers, lab4, now,
                 duration, num_threads, main, wake_at, start_time, queue, spike_start>>

\* for future in as_completed(futures): future.result() -- the worker
\* futures only
WorkersCompleted ==
  /\ main = "wait"
  /\ workers_done = num_threads
  /\ main' = "shutdown"
  /\ UNCHANGED <<sequential, concurrent, export, startup, stats, callers, lab4, now,
                 duration, num_threads, wake_at, start_time, pool, queue, spike_start,
                 workers_done>>

\* the with-block ends: shutdown(wait=True) returns when every submitted
\* task has run
Shutdown ==
  /\ main = "shutdown"
  /\ queue = <<>>
  /\ \A t \in Threads : pool[t].task = "none"
  /\ main' = "errors"
  /\ UNCHANGED <<sequential, concurrent, export, startup, stats, callers, lab4, now,
                 duration, num_threads, wake_at, start_time, pool, queue, spike_start,
                 workers_done>>

\* self.error_worker(error_rate=0.05): int(total_requests * 0.05) requests
\* to endpoints that do not exist, each counted as failed or as an error
error_worker ==
  /\ main = "errors"
  /\ LET n == (total_requests * 5) \div 100
     IN /\ total_requests' = total_requests + n
        /\ \E k \in 0..n : failed' = failed + k /\ errors' = errors + (n - k)
        /\ latencies' = latencies \o [i \in 1..n |-> "latency"]
  /\ main' = "finished"
  /\ UNCHANGED <<sequential, concurrent, export, startup, successful, callers, lab4,
                 now, duration, num_threads, wake_at, start_time, pool, queue,
                 spike_start, workers_done>>

\* something is due at the present time
Due ==
  \/ main \in {"login", "submit", "errors"}
  \/ main = "sleep" /\ now >= wake_at
  \/ main = "wait" /\ workers_done = num_threads
  \/ main = "shutdown" /\ queue = <<>> /\ \A t \in Threads : pool[t].task = "none"
  \/ \E t \in Threads : t <= num_threads /\ pool[t].task = "none" /\ queue # <<>>
  \/ \E t \in Threads : pool[t].task # "none" /\ now >= pool[t].end_time

\* time passes while run() and the tasks sleep
Tick ==
  /\ main # "finished"
  /\ ~Due
  /\ now' = now + 1
  /\ UNCHANGED <<sequential, concurrent, export, startup, stats, callers, lab4,
                 duration, num_threads, main, wake_at, start_time, pool, queue,
                 spike_start, workers_done>>

NextRun ==
  \/ \E ok \in BOOLEAN : Login(ok)
  \/ SubmitWorkers
  \/ \E t \in Threads : Start(t)
  \/ SubmitSpike
  \/ \E t \in Threads : \E o \in HttpOutcomes : LoopRequest(t, o)
  \/ \E t \in Threads : LoopExit(t)
  \/ WorkersCompleted
  \/ Shutdown
  \/ error_worker
  \/ Tick

\* no generator runs
NotRunning ==
  /\ now = 0
  /\ duration = 0
  /\ num_threads = 0
  /\ main = "finished"
  /\ wake_at = 0
  /\ start_time = 0
  /\ pool = [t \in Threads |-> Idle]
  /\ queue = <<>>
  /\ spike_start = -1
  /\ workers_done = 0

\* ------------------------------------------------------------------ lab4
\* what cache.incr('hits') does: the new count, a
\* redis.exceptions.ConnectionError, or another exception of the client
IncrOutcomes == {"count", "ConnectionError", "RedisError"}

NoResult == [kind |-> "none", count |-> 0]

\* the module is imported: cache = redis.Redis(...), no request yet
InitLab4 ==
  /\ h_pc = "idle"
  /\ retries = 0
  /\ incr_attempts = 0
  /\ hits = 0
  /\ h_result = NoResult
  /\ h_calls = 0

\* hello() calls get_hit_count(): retries = 5
get_hit_count ==
  /\ h_pc = "idle"
  /\ h_calls < MaxHits
  /\ h_calls' = h_calls + 1
  /\ retries' = 5
  /\ incr_attempts' = 0
  /\ h_result' = NoResult
  /\ h_pc' = "try"
  /\ UNCHANGED <<sequential, concurrent, export, startup, stats, callers, generator,
                 hits>>

\* return cache.incr('hits'): the count is returned, a ConnectionError is
\* caught, another exception leaves get_hit_count
Incr(o) ==
  /\ h_pc = "try"
  /\ incr_attempts' = incr_attempts + 1
  /\ hits' = IF o = "count" THEN hits + 1 ELSE hits
  /\ h_result' = [kind |-> o, count |-> IF o = "count" THEN hits + 1 ELSE 0]
  /\ h_pc' = CASE o = "count" -> "returned"
               [] o = "ConnectionError" -> "except"
               [] o = "RedisError" -> "raised"
  /\ UNCHANGED <<sequential, concurrent, export, startup, stats, callers, generator,
                 retries, h_calls>>

\* the handler that never gives up
ExceptKeepRetrying ==
  /\ h_pc = "except"
  /\ h_pc' = "sleep"
  /\ UNCHANGED <<sequential, concurrent, export, startup, stats, callers, generator,
                 retries, incr_attempts, hits, h_result, h_calls>>

\* except ConnectionError as exc: if retries == 0: raise exc; retries -= 1
Except ==
  /\ h_pc = "except"
  /\ IF retries = 0
       THEN h_pc' = "raised" /\ UNCHANGED retries
       ELSE h_pc' = "sleep" /\ retries' = retries - 1
  /\ UNCHANGED <<sequential, concurrent, export, startup, stats, callers, generator,
                 incr_attempts, hits, h_result, h_calls>>

\* time.sleep(0.5), then the loop tries again
Sleep ==
  /\ h_pc = "sleep"
  /\ h_pc' = "try"
  /\ UNCHANGED <<sequential, concurrent, export, startup, stats, callers, generator,
                 retries, incr_attempts, hits, h_result, h_calls>>

\* hello() answers with the count, or the exception becomes the response
Hello ==
  /\ h_pc \in {"returned", "raised"}
  /\ h_pc' = "idle"
  /\ UNCHANGED <<sequential, concurrent, export, startup, stats, callers, generator,
                 retries, incr_attempts, hits, h_result, h_calls>>

\* a step of get_hit_count once called
Running ==
  \/ \E o \in IncrOutcomes : Incr(o)
  \/ Except
  \/ Sleep

NextHits ==
  \/ get_hit_count
  \/ Running
  \/ Hello

\* ---------------------------------------------------- metric instruments
Instrument(n, k, u) == [name |-> n, kind |-> k, unit |-> u]

\* the instruments instrument_fastapi creates, in order
CommonInstruments ==
  <<Instrument("http_requests_total", "counter", "1"),
    Instrument("http_request_duration_seconds", "histogram", "s")>>

\* the instruments db.py creates at module level, in order
DbInstruments ==
  <<Instrument("db_operations_total", "counter", "1"),
    Instrument("db_operation_duration_seconds", "histogram", "s")>>

\* what a create call at import can ask for
InstrumentNames ==
  {"http_requests_total", "http_request_duration_seconds",
   "db_operations_total", "db_operation_duration_seconds"}
Units == {"1", "s"}
CreateCalls ==
  {Instrument(n, k, u) : n \in InstrumentNames, k \in {"counter", "histogram"}, u \in Units}

\* a create call that answers a conflicting request with the instrument it has
create_instrumentFirstWins(reg, i) ==
  IF \E r \in reg : r.name = i.name
    THEN [error |-> "", reg |-> reg]
    ELSE [error |-> "", reg |-> reg \cup {i}]

\* meter.create_counter / meter.create_histogram: a new instrument, the
\* existing one when the name is registered with the same kind and unit, a
\* fatal error when it is registered with another
create_instrument(reg, i) ==
  IF \E r \in reg : r.name = i.name /\ r # i
    THEN [error |-> "ConfigurationError", reg |-> reg]
    ELSE [error |-> "", reg |-> reg \cup {i}]

\* a process that has imported its module and serves requests
Serving ==
  /\ proc = "serving"
  /\ registry = {CommonInstruments[1], CommonInstruments[2],
                  DbInstruments[1], DbInstruments[2]}
  /\ attempts = CommonInstruments \o DbInstruments
  /\ recorded = 0

\* tracer, meter, request_counter, request_duration = instrument_fastapi(app, ...)
InstrumentFastapi ==
  /\ proc = "importing"
  /\ attempts = <<>>
  /\ attempts' = CommonInstruments
  /\ registry' = create_instrument(create_instrument(registry, CommonInstruments[1]).reg,
                                   CommonInstruments[2]).reg
  /\ UNCHANGED <<sequential, tools, concurrent, export, proc, recorded>>

\* a create call at module level, as db.py makes for DbInstruments
ModuleCreate(i) ==
  /\ proc = "importing"
  /\ Len(attempts) >= Len(CommonInstruments)
  /\ Len(attempts) < Len(CommonInstruments) + MaxCreates
  /\ attempts' = Append(attempts, i)
  /\ LET made == create_instrument(registry, i)
     IN IF made.error # ""
          THEN proc' = "aborted" /\ UNCHANGED registry
          ELSE registry' = made.reg /\ UNCHANGED proc
  /\ UNCHANGED <<sequential, tools, concurrent, export, recorded>>

\* the import ends and the process serves
StartServing ==
  /\ proc = "importing"
  /\ Len(attempts) >= Len(CommonInstruments)
  /\ proc' = "serving"
  /\ UNCHANGED <<sequential, tools, concurrent, export, registry, attempts, recorded>>

\* a request: request_counter.add, request_duration.record on the
\* instruments made at import; no handler creates an instrument
HandleRequest ==
  /\ proc = "serving"
  /\ recorded < MaxRequests
  /\ \E r \in registry : r.name = "http_requests_total"
  /\ recorded' = recorded + 1
  /\ UNCHANGED <<sequential, tools, concurrent, export, proc, registry, attempts>>

NextStartup ==
  \/ InstrumentFastapi
  \/ \E i \in CreateCalls : ModuleCreate(i)
  \/ StartServing
  \/ HandleRequest

\* ------------------------------------------------- concurrent requests
\* create_data is `async def`: the event loop runs one task per request and
\* a task gives up control at `await client.post(...)`
Tasks == 1..NumTasks
NoSpan == <<0, 0>>

\* one current-span context for the whole process
ContextProcessWide(t) == CHOOSE u \in Tasks : \A v \in Tasks : u <= v

\* the context a task runs in: its own
Context(t) == t

\* trace.get_current_span() in task t
CurrentSpan(t) == current[Context(t)]

\* the spans, with-blocks and context of task t, and the spans it has ended
Frame(t) ==
  [spans |-> t_spans[t], scopes |-> t_scopes[t], current |-> current, ended |-> 0]

\* with tracer.start_as_current_span(name): the new span is a child of the
\* current span and becomes the current span; the block keeps the token
Enter(c, t, name) ==
  [c EXCEPT
     !.spans = Append(@, [name |-> name, parent |-> c.current[Context(t)],
                          ended |-> FALSE]),
     !.scopes = Append(@, [span |-> Len(c.spans) + 1, token |-> c.current[Context(t)]]),
     !.current = [@ EXCEPT ![Context(t)] = <<t, Len(c.spans) + 1>>]]

\* leaving the innermost with-block, by return or by exception: the span
\* ends and goes to the span processor, the context is reset to the token
Exit(c, t) ==
  LET sc == c.scopes[Len(c.scopes)]
  IN [c EXCEPT
        !.spans = [@ EXCEPT ![sc.span].ended = TRUE],
        !.scopes = SubSeq(@, 1, Len(@) - 1),
        !.current = [@ EXCEPT ![Context(t)] = sc.token],
        !.ended = @ + 1]

Commit(c, t) ==
  /\ t_spans' = [t_spans EXCEPT ![t] = c.spans]
  /\ t_scopes' = [t_scopes EXCEPT ![t] = c.scopes]
  /\ current' = c.current
  /\ pending' = pending + c.ended

InitTasks ==
  /\ t_pc = [t \in Tasks |-> "idle"]
  /\ t_authorization = [t \in Tasks |-> NoHeader]
  /\ t_calls = [t \in Tasks |-> <<>>]
  /\ t_spans = [t \in Tasks |-> <<>>]
  /\ t_scopes = [t \in Tasks |-> <<>>]
  /\ current = [t \in Tasks |-> NoSpan]
  /\ t_response = [t \in Tasks |-> 0]
  /\ http_requests_total = 0
  /\ http_request_durations = 0
  /\ lock = 0
  /\ loaded = [t \in Tasks |-> 0]
  /\ pending = 0
  /\ in_flight = 0
  /\ exported = 0
  /\ dropped = 0

\* a counter that reads and writes its value without taking the lock
AcquireNoLock(t) == lock' = lock

\* the counter's value is read and written under its lock
Acquire(t) == lock = 0 /\ lock' = t

\* request_counter.add(1, {"method": "POST", "endpoint": "/api/data"}): the
\* cumulative value is read ...
AddLoad(t, a) ==
  /\ t_pc[t] = "idle"
  /\ Acquire(t)
  /\ loaded' = [loaded EXCEPT ![t] = http_requests_total]
  /\ t_authorization' = [t_authorization EXCEPT ![t] = a]
  /\ t_pc' = [t_pc EXCEPT ![t] = "adding"]
  /\ UNCHANGED <<sequential, tools, startup, t_calls, t_spans, t_scopes, current, t_response,
                 http_requests_total, http_request_durations, export>>

\* ... and written back, incremented by the delta
AddStore(t) ==
  /\ t_pc[t] = "adding"
  /\ http_requests_total' = loaded[t] + 1
  /\ loaded' = [loaded EXCEPT ![t] = 0]
  /\ lock' = 0
  /\ t_pc' = [t_pc EXCEPT ![t] = "started"]
  /\ UNCHANGED <<sequential, tools, startup, t_authorization, t_calls, t_spans, t_scopes, current,
                 t_response, http_request_durations, export>>

\* create_data up to its first await: the root span, the header check, the
\* app.validate_token span, the POST /validate
CreateDataStart(t) ==
  /\ t_pc[t] = "started"
  /\ LET root == Enter(Frame(t), t, "app.create_data")
     IN IF NotAuthorization(t_authorization[t])
          THEN /\ Commit(Exit(root, t), t)
               /\ t_response' = [t_response EXCEPT ![t] = 401]
               /\ t_pc' = [t_pc EXCEPT ![t] = "done"]
          ELSE /\ Commit(Enter(root, t, "app.validate_token"), t)
               /\ t_pc' = [t_pc EXCEPT ![t] = "auth_wait"]
               /\ UNCHANGED t_response
  /\ UNCHANGED <<sequential, tools, startup, t_authorization, t_calls, http_requests_total,
                 http_request_durations, lock, loaded, in_flight, exported, dropped>>

\* the task resumes with the outcome o of POST /validate and runs to its
\* next await, the POST /store inside the app.store_data span, or to its end
CreateDataValidated(t, o) ==
  /\ t_pc[t] = "auth_wait"
  /\ t_calls' = [t_calls EXCEPT ![t] = Append(@, o)]
  /\ IF o.kind = "RequestError" \/ o.status # 200
       THEN /\ Commit(Exit(Exit(Frame(t), t), t), t)
            /\ t_response' = [t_response EXCEPT
                                ![t] = IF o.kind = "RequestError" THEN 503 ELSE 401]
            /\ t_pc' = [t_pc EXCEPT ![t] = "done"]
       ELSE /\ Commit(Enter(Exit(Frame(t), t), t, "app.store_data"), t)
            /\ t_pc' = [t_pc EXCEPT ![t] = "db_wait"]
            /\ UNCHANGED t_response
  /\ UNCHANGED <<sequential, tools, startup, t_authorization, http_requests_total,
                 http_request_durations, lock, loaded, in_flight, exported, dropped>>

\* the task resumes with the outcome o of POST /store and runs to its end
CreateDataStored(t, o) ==
  /\ t_pc[t] = "db_wait"
  /\ t_calls' = [t_calls EXCEPT ![t] = Append(@, o)]
  /\ Commit(Exit(Exit(Frame(t), t), t), t)
  /\ t_response' = [t_response EXCEPT
        ![t] = IF o.kind = "RequestError" THEN 503 ELSE IF o.status # 200 THEN 500 ELSE 200]
  /\ http_request_durations' =
        IF o.kind # "RequestError" /\ o.status = 200
          THEN http_request_durations + 1 ELSE http_request_durations
  /\ t_pc' = [t_pc EXCEPT ![t] = "done"]
  /\ UNCHANGED <<sequential, tools, startup, t_authorization, http_requests_total, lock, loaded,
                 in_flight, exported, dropped>>

\* ------------------------------------------------------------- export
\* what a batch sent to the collector can meet
CollectorOutcomes == {"ok", "unavailable", "timeout"}

\* an export that raises into a request in progress
ExportEndRaising(c) ==
  /\ in_flight > 0
  /\ IF c = "ok"
       THEN /\ exported' = exported + in_flight
            /\ UNCHANGED <<dropped, concurrent>>
       ELSE /\ dropped' = dropped + in_flight
            /\ t_response' = [t \in Tasks |-> IF t_pc[t] = "done" THEN 500 ELSE t_response[t]]
            /\ UNCHANGED <<exported, t_pc, t_authorization, t_calls, t_spans, t_scopes,
                           current, http_requests_total, http_request_durations, lock,
                           loaded>>
  /\ in_flight' = 0
  /\ UNCHANGED <<sequential, tools, startup, pending>>

\* BatchSpanProcessor's worker takes the buffered spans as one batch
ExportBegin ==
  /\ pending > 0
  /\ in_flight = 0
  /\ in_flight' = pending
  /\ pending' = 0
  /\ UNCHANGED <<sequential, tools, startup, concurrent, exported, dropped>>

\* the send ends: delivered, or failed and dropped
ExportEnd(c) ==
  /\ in_flight > 0
  /\ IF c = "ok"
       THEN exported' = exported + in_flight /\ UNCHANGED dropped
       ELSE dropped' = dropped + in_flight /\ UNCHANGED exported
  /\ in_flight' = 0
  /\ UNCHANGED <<sequential, tools, startup, concurrent, pending>>

NextTasks ==
  \/ \E t \in Tasks : \E a \in Headers : AddLoad(t, a)
  \/ \E t \in Tasks : AddStore(t)
  \/ \E t \in Tasks : CreateDataStart(t)
  \/ \E t \in Tasks : \E o \in AuthOutcomes : CreateDataValidated(t, o)
  \/ \E t \in Tasks : \E o \in StoreOutcomes : CreateDataStored(t, o)
  \/ ExportBegin
  \/ \E c \in CollectorOutcomes : ExportEnd(c)

\* ------------------------------------------------------ trace context
\* W3C-style propagator installed by FastAPIInstrumentor.instrument_app and
\* HTTPXClientInstrumentor().instrument()
NoParent == [trace_id |-> "", span_id |-> "", sampled |-> FALSE]
NoContext == [trace_id |-> "", parent |-> ""]

\* ids minted by this process: one trace id per root request, one span id
\* per span
NewTraceId(n) == "trace-" \o ToString(n)
SpanId(n, i) == "span-" \o ToString(n) \o "-" \o ToString(i)

\* extract without validation of the ids
extractUnvalidated(h) ==
  IF Len(h) = 4 /\ h[1] = "00"
    THEN [trace_id |-> h[2], span_id |-> h[3], sampled |-> h[4] = "01"]
    ELSE NoParent

\* extract(headerValue): the parent context, or "no parent" when the header
\* is missing or does not parse
extract(h) ==
  IF /\ Len(h) = 4
     /\ h[1] = "00"
     /\ h[2] \notin InvalidIds
     /\ h[3] \notin InvalidIds
     /\ h[4] \in {"00", "01"}
    THEN [trace_id |-> h[2], span_id |-> h[3], sampled |-> h[4] = "01"]
    ELSE NoParent

\* inject(currentSpan): trace id, span id and sampled flag in one header value
inject(c) ==
  <<"00", c.trace_id, c.span_id, IF c.sampled THEN "01" ELSE "00">>

\* the context the instrumented framework runs request n in: the caller's
\* trace under the caller's span, or a new trace with this request as root
ServerContext(tp, n) ==
  LET p == extract(tp)
  IN IF p = NoParent
       THEN [trace_id |-> NewTraceId(n), parent |-> ""]
       ELSE [trace_id |-> p.trace_id, parent |-> p.span_id]

\* the context of span i of the request in progress
SpanContext(i) ==
  [trace_id |-> ctx.trace_id, span_id |-> SpanId(nreq, i), sampled |-> TRUE]

InitRequests ==
  /\ handler = "none"
  /\ pc = "idle"
  /\ authorization = NoHeader
  /\ arg = ""
  /\ credentials = [username |-> "", password |-> ""]
  /\ drawn = "none"
  /\ spans = <<>>
  /\ stack = <<>>
  /\ log = <<>>
  /\ calls = <<>>
  /\ idx = 0
  /\ stored_ids = <<>>
  /\ ret = NoResponse
  /\ response = NoResponse
  /\ obs = <<>>
  /\ request_counter = [s \in Services |-> EmptyBag]
  /\ request_duration = [s \in Services |-> EmptyBag]
  /\ db_operations_counter = EmptyBag
  /\ db_operation_duration = EmptyBag
  /\ items = {}
  /\ users = default_users
  /\ conn = [opened |-> 0, closed |-> 0, rollbacks |-> 0]
  /\ nreq = 0
  /\ traceparent = NoTraceparent
  /\ ctx = NoContext

\* the clients (traffic-generator.py, curl) send no trace-context header
Init ==
  /\ InitRequests
  /\ InitTasks
  /\ Serving
  /\ InitStats
  /\ NotRunning
  /\ InitLab4
  /\ inbound = {NoTraceparent}
  /\ budget = MaxRequests

\* a service process that starts importing its module
InitImport ==
  /\ InitRequests
  /\ InitTasks
  /\ InitStats
  /\ NotRunning
  /\ InitLab4
  /\ inbound = {NoTraceparent}
  /\ budget = MaxRequests
  /\ proc = "importing"
  /\ registry = {}
  /\ attempts = <<>>
  /\ recorded = 0

\* the clients are instrumented services or send headers of their own
InitTrace ==
  /\ InitRequests
  /\ InitTasks
  /\ Serving
  /\ InitStats
  /\ NotRunning
  /\ InitLab4
  /\ inbound = InboundHeaders
  /\ budget = MaxTraced

\* ------------------------------------------------- entry of every handler
\* The framework dispatches a request to handler h; the handler's first
\* statements run: start_time = time.time(); request_counter.add(1, {...})
\* and, in the db service, db_operations_counter.add(1, {...})
Receive(h, a, x, c) ==
  /\ pc \in {"idle", "done"}
  /\ nreq < budget
  /\ nreq' = nreq + 1
  /\ \E tp \in inbound : /\ traceparent' = tp
                          /\ ctx' = ServerContext(tp, nreq + 1)
  /\ handler' = h
  /\ authorization' = a
  /\ arg' = x
  /\ credentials' = c
  /\ drawn' = "none"
  /\ spans' = <<>>
  /\ stack' = <<>>
  /\ log' = <<>>
  /\ calls' = <<>>
  /\ idx' = 0
  /\ stored_ids' = <<>>
  /\ ret' = NoResponse
  /\ response' = NoResponse
  /\ conn' = [opened |-> 0, closed |-> 0, rollbacks |-> 0]
  /\ request_counter' = [request_counter EXCEPT
        ![Service(h)] = @ (+) SetToBag({CounterTags(h)})]
  /\ IF h \in DbHandlers
       THEN /\ db_operations_counter' = db_operations_counter (+) SetToBag({DbOpTags(h)})
            /\ obs' = <<Observation("http_requests_total", CounterTags(h)),
                        Observation("db_operations_total", DbOpTags(h))>>
       ELSE /\ UNCHANGED db_operations_counter
            /\ obs' = <<Observation("http_requests_total", CounterTags(h))>>
  /\ UNCHANGED <<request_duration, db_operation_duration, items, users, outside>>
  /\ pc' = "root"

\* the first statement inside the root span's block
FirstPc(h) ==
  CASE h \in AppHandlers -> "check_header"
    [] h = "login" -> "check_credentials"
    [] h \in {"validate_token", "token_info"} -> "check_token"
    [] h \in DbAuthorized -> "db_check_header"
    [] h = "get_user" -> "connect"
    [] h = "create_user" -> "check_user"

\* with tracer.start_as_current_span("<service>.<operation>") as span:
OpenRoot ==
  /\ pc = "root"
  /\ start_as_current_span(RootSpanName(handler))
  /\ pc' = FirstPc(handler)
  /\ UNCHANGED <<input, calls, seed, ret, response, metrics, storage, nreq, outside>>

\* an outbound call that injects the context of the request's root span
CallInjectingRoot(svc, op, item) ==
  [svc |-> svc, op |-> op, item |-> item, span |-> Top(stack), outcome |-> Pending,
   traceparent |-> inject(SpanContext(stack[1]))]

\* an outbound call in flight: the service and route called, the seed item it
\* stores (0 when it is not a seed item), the span that wraps it and the
\* trace-context header the instrumented httpx client injects: the context
\* of the current span
Call(svc, op, item) ==
  [svc |-> svc, op |-> op, item |-> item, span |-> Top(stack), outcome |-> Pending,
   traceparent |-> inject(SpanContext(Top(stack)))]

\* ------------------------------------------------------------ app handlers
\* if not authorization: set_status(ERROR); raise HTTPException(401)
\* otherwise enter the app.validate_token span
CheckAuthorization ==
  /\ pc = "check_header"
  /\ IF NotAuthorization(authorization)
       THEN /\ spans' = set_status(spans, 1, "Missing authorization")
            /\ ret' = HTTPException(401, "Missing authorization header")
            /\ pc' = "unwind"
            /\ UNCHANGED <<stack, log>>
       ELSE /\ start_as_current_span("app.validate_token")
            /\ pc' = "auth_call"
            /\ UNCHANGED ret
  /\ UNCHANGED <<input, calls, seed, response, metrics, storage, nreq, outside>>

\* auth_response = await client.post(f"{AUTH_SERVICE_URL}/validate", ...)
\* the task suspends until the call ends
CallValidate ==
  /\ pc = "auth_call"
  /\ calls' = Append(calls, Call("auth", "/validate", 0))
  /\ pc' = "auth_wait"
  /\ UNCHANGED <<input, tracing, seed, ret, response, metrics, storage, nreq, outside>>

SetOutcome(cs, o) == [cs EXCEPT ![Len(cs)].outcome = o]

\* a handler that lets a connection failure of the validation call pass
ValidateVerdictIgnoringError(o) ==
  IF o.kind # "RequestError" /\ o.status # 200 THEN "invalid" ELSE "valid"

\* a handler that accepts any response of the validation call
ValidateVerdictAnyResponse(o) ==
  IF o.kind = "RequestError" THEN "unavailable" ELSE "valid"

\* try: ... if auth_response.status_code != 200: ... except httpx.RequestError: ...
ValidateVerdict(o) ==
  IF o.kind = "RequestError" THEN "unavailable"
  ELSE IF o.status # 200 THEN "invalid" ELSE "valid"

\* the call ends with outcome o; status != 200 raises 401, RequestError raises
\* 503, a 200 leaves the try block
ValidateReturns(o) ==
  /\ pc = "auth_wait"
  /\ calls' = SetOutcome(calls, o)
  /\ IF ValidateVerdict(o) = "unavailable"
       THEN /\ spans' = set_both(spans, stack, "Auth service unavailable")
            /\ ret' = HTTPException(503, "Auth service unavailable")
            /\ pc' = "unwind"
       ELSE IF ValidateVerdict(o) = "invalid"
       THEN /\ spans' = set_both(spans, stack, "Invalid token")
            /\ ret' = HTTPException(401, "Invalid token")
            /\ pc' = "unwind"
       ELSE /\ pc' = "auth_exit"
            /\ UNCHANGED <<spans, ret>>
  /\ UNCHANGED <<input, stack, log, seed, response, metrics, storage, nreq, outside>>

\* where the handler continues after the app.validate_token block
AfterAuth(h) ==
  CASE h = "create_data" -> "db_span"
    [] h = "get_data" -> "db_span"
    [] h = "get_preset_data" -> "preset"
    [] h = "list_presets" -> "presets"
    [] h = "seed_preset_data" -> "seed_span"

\* normal exit of the app.validate_token block
ExitValidate ==
  /\ pc = "auth_exit"
  /\ end_span(spans)
  /\ pc' = AfterAuth(handler)
  /\ UNCHANGED <<input, calls, seed, ret, response, metrics, storage, nreq, outside>>

\* ---- create_data: with tracer.start_as_current_span("app.store_data") as db_span
\* ---- get_data:    with tracer.start_as_current_span("app.retrieve_data") as db_span
OpenDbSpan ==
  /\ pc = "db_span"
  /\ start_as_current_span(IF handler = "create_data" THEN "app.store_data"
                                                      ELSE "app.retrieve_data")
  /\ pc' = "db_call"
  /\ UNCHANGED <<input, calls, seed, ret, response, metrics, storage, nreq, outside>>

\* db_response = await client.post(f"{DB_SERVICE_URL}/store", ...)        (create_data)
\* db_response = await client.get(f"{DB_SERVICE_URL}/retrieve/{item_id}") (get_data)
CallDb ==
  /\ pc = "db_call"
  /\ calls' = Append(calls, Call("db", IF handler = "create_data" THEN "/store"
                                                                       ELSE "/retrieve", 0))
  /\ pc' = "db_wait"
  /\ UNCHANGED <<input, tracing, seed, ret, response, metrics, storage, nreq, outside>>

\* create_data, the /store call ends with outcome o
StoreReturns(o) ==
  /\ pc = "db_wait"
  /\ handler = "create_data"
  /\ calls' = SetOutcome(calls, o)
  /\ IF o.kind = "RequestError"
       THEN /\ spans' = set_both(spans, stack, "Database service unavailable")
            /\ ret' = HTTPException(503, "Database service unavailable")
            /\ UNCHANGED metrics
       ELSE IF o.status # 200
       THEN /\ spans' = set_both(spans, stack, "Database operation failed")
            /\ ret' = HTTPException(500, "Database operation failed")
            /\ UNCHANGED metrics
       ELSE /\ RecordDuration
            /\ ret' = [status |-> 200, body |-> Body("json", o.id)]
            /\ UNCHANGED spans
  /\ pc' = "unwind"
  /\ UNCHANGED <<input, stack, log, seed, response, storage, nreq, outside>>

\* get_data without the elif db_response.status_code == 404 branch: a 404
\* from storage falls into the generic failure branch
RetrieveReturnsNo404(o) ==
  /\ pc = "db_wait"
  /\ handler = "get_data"
  /\ calls' = SetOutcome(calls, o)
  /\ IF o.kind = "RequestError"
       THEN /\ spans' = set_both(spans, stack, "Database service unavailable")
            /\ ret' = HTTPException(503, "Database service unavailable")
            /\ UNCHANGED metrics
       ELSE IF o.status # 200
       THEN /\ spans' = set_both(spans, stack, "Database operation failed")
            /\ ret' = HTTPException(500, "Database operation failed")
            /\ UNCHANGED metrics
       ELSE /\ RecordDuration
            /\ ret' = [status |-> 200, body |-> Body("json", o.id)]
            /\ UNCHANGED spans
  /\ pc' = "unwind"
  /\ UNCHANGED <<input, stack, log, seed, response, storage, nreq, outside>>

\* get_data, the /retrieve call ends with outcome o
RetrieveReturns(o) ==
  /\ pc = "db_wait"
  /\ handler = "get_data"
  /\ calls' = SetOutcome(calls, o)
  /\ IF o.kind = "RequestError"
       THEN /\ spans' = set_both(spans, stack, "Database service unavailable")
            /\ ret' = HTTPException(503, "Database service unavailable")
            /\ UNCHANGED metrics
       ELSE IF o.status = 404
       THEN /\ spans' = set_both(spans, stack, "Item not found")
            /\ ret' = HTTPException(404, "Item not found")
            /\ UNCHANGED metrics
       ELSE IF o.status # 200
       THEN /\ spans' = set_both(spans, stack, "Database operation failed")
            /\ ret' = HTTPException(500, "Database operation failed")
            /\ UNCHANGED metrics
       ELSE /\ RecordDuration
            /\ ret' = [status |-> 200, body |-> Body("json", o.id)]
            /\ UNCHANGED spans
  /\ pc' = "unwind"
  /\ UNCHANGED <<input, stack, log, seed, response, storage, nreq, outside>>

\* get_preset_data raising the 404 without marking the root span
PresetLookupUnmarked ==
  /\ pc = "preset"
  /\ IF arg \in preset_data
       THEN /\ RecordDuration
            /\ ret' = [status |-> 200, body |-> Body("preset", arg)]
            /\ UNCHANGED spans
       ELSE /\ ret' = HTTPException(404, "Preset not found")
            /\ UNCHANGED <<spans, metrics>>
  /\ pc' = "unwind"
  /\ UNCHANGED <<input, stack, log, calls, seed, response, storage, nreq, outside>>

\* get_preset_data: if preset_id in preset_data: record, return; else 404
PresetLookup ==
  /\ pc = "preset"
  /\ IF arg \in preset_data
       THEN /\ RecordDuration
            /\ ret' = [status |-> 200, body |-> Body("preset", arg)]
            /\ UNCHANGED spans
       ELSE /\ spans' = set_status(spans, 1, "Preset not found")
            /\ ret' = HTTPException(404, "Preset not found")
            /\ UNCHANGED metrics
  /\ pc' = "unwind"
  /\ UNCHANGED <<input, stack, log, calls, seed, response, storage, nreq, outside>>

\* list_presets returning without recording the duration
ListPresetsUnrecorded ==
  /\ pc = "presets"
  /\ ret' = [status |-> 200, body |-> Body("presets", "")]
  /\ pc' = "unwind"
  /\ UNCHANGED <<input, tracing, calls, seed, response, metrics, storage, nreq, outside>>

\* list_presets: record the duration and return the list
ListPresets ==
  /\ pc = "presets"
  /\ RecordDuration
  /\ ret' = [status |-> 200, body |-> Body("presets", "")]
  /\ pc' = "unwind"
  /\ UNCHANGED <<input, tracing, calls, seed, response, storage, nreq, outside>>

\* ---- seed_preset_data
\* stored_ids = []; with tracer.start_as_current_span("app.seed_items") as seed_span
OpenSeedItems ==
  /\ pc = "seed_span"
  /\ start_as_current_span("app.seed_items")
  /\ stored_ids' = <<>>
  /\ idx' = 0
  /\ pc' = "seed_loop"
  /\ UNCHANGED <<input, calls, ret, response, metrics, storage, nreq, outside>>

\* for idx, item in enumerate(seed_items):
\*     with tracer.start_as_current_span("app.seed_item") as item_span
\* or, after the last item, the normal exit of the app.seed_items block
SeedLoop ==
  /\ pc = "seed_loop"
  /\ IF idx < NumSeedItems
       THEN /\ start_as_current_span("app.seed_item")
            /\ pc' = "item_call"
       ELSE /\ end_span(spans)
            /\ pc' = "seed_return"
  /\ UNCHANGED <<input, calls, seed, ret, response, metrics, storage, nreq, outside>>

\* db_response = await client.post(f"{DB_SERVICE_URL}/store", json=item, ...)
CallStoreItem ==
  /\ pc = "item_call"
  /\ calls' = Append(calls, Call("db", "/store", idx + 1))
  /\ pc' = "item_wait"
  /\ UNCHANGED <<input, tracing, seed, ret, response, metrics, storage, nreq, outside>>

\* a seed loop that gives up at the first item the db service cannot be
\* reached for, as create_data does
StoreItemReturnsRaising(o) ==
  /\ pc = "item_wait"
  /\ calls' = SetOutcome(calls, o)
  /\ IF o.kind = "RequestError"
       THEN /\ spans' = set_both(spans, stack, "Database service unavailable")
            /\ ret' = HTTPException(503, "Database service unavailable")
            /\ pc' = "unwind"
            /\ UNCHANGED stored_ids
       ELSE /\ stored_ids' = IF o.status = 200 THEN Append(stored_ids, o.id) ELSE stored_ids
            /\ pc' = "item_exit"
            /\ UNCHANGED <<spans, ret>>
  /\ UNCHANGED <<input, stack, log, idx, response, metrics, storage, nreq, outside>>

\* the call ends: a 200 appends the id, RequestError marks item_span, any
\* other status is ignored
StoreItemReturns(o) ==
  /\ pc = "item_wait"
  /\ calls' = SetOutcome(calls, o)
  /\ IF o.kind = "RequestError"
       THEN /\ spans' = set_status(spans, Top(stack), "Failed to store item")
            /\ UNCHANGED stored_ids
       ELSE IF o.status = 200
       THEN /\ stored_ids' = Append(stored_ids, o.id)
            /\ UNCHANGED spans
       ELSE UNCHANGED <<spans, stored_ids>>
  /\ pc' = "item_exit"
  /\ UNCHANGED <<input, stack, log, idx, ret, response, metrics, storage, nreq, outside>>

\* a loop that stores an item again when its first attempt failed
ExitSeedItemRetry ==
  /\ pc = "item_exit"
  /\ end_span(spans)
  /\ idx' = IF calls[Len(calls)].outcome # Pending
                /\ calls[Len(calls)].outcome.status # 200
                /\ Cardinality({k \in 1..Len(calls) : calls[k].item = idx + 1}) < 2
             THEN idx ELSE idx + 1
  /\ pc' = "seed_loop"
  /\ UNCHANGED <<input, calls, stored_ids, ret, response, metrics, storage, nreq, outside>>

\* normal exit of the app.seed_item block; next iteration
ExitSeedItem ==
  /\ pc = "item_exit"
  /\ end_span(spans)
  /\ idx' = idx + 1
  /\ pc' = "seed_loop"
  /\ UNCHANGED <<input, calls, stored_ids, ret, response, metrics, storage, nreq, outside>>

\* request_duration.record(...); return {"status": "seeded", ...}
SeedReturn ==
  /\ pc = "seed_return"
  /\ RecordDuration
  /\ ret' = [status |-> 200,
             body |-> [NoBody EXCEPT !.kind = "seeded", !.n = Len(stored_ids),
                                     !.ids = stored_ids]]
  /\ pc' = "unwind"
  /\ UNCHANGED <<input, tracing, calls, seed, response, storage, nreq, outside>>

\* ----------------------------------------------------------- auth handlers
\* login: if not username or not password: set_status(ERROR); raise 401
\* otherwise enter the auth.validate_credentials span
CheckCredentials ==
  /\ pc = "check_credentials"
  /\ IF credentials.username = "" \/ credentials.password = ""
       THEN /\ spans' = set_status(spans, 1, "Missing credentials")
            /\ ret' = HTTPException(401, "Username and password required")
            /\ pc' = "unwind"
            /\ UNCHANGED <<stack, log>>
       ELSE /\ start_as_current_span("auth.validate_credentials")
            /\ pc' = "user_call"
            /\ UNCHANGED ret
  /\ UNCHANGED <<input, calls, seed, response, metrics, storage, nreq, outside>>

\* db_response = await client.get(f"{DB_SERVICE_URL}/user/{username}", timeout=5.0)
CallGetUser ==
  /\ pc = "user_call"
  /\ calls' = Append(calls, Call("db", "/user", 0))
  /\ pc' = "user_wait"
  /\ UNCHANGED <<input, tracing, seed, ret, response, metrics, storage, nreq, outside>>

\* login without the comparison of the stored password with the given one
GetUserReturnsAnyPassword(o) ==
  /\ pc = "user_wait"
  /\ calls' = SetOutcome(calls, o)
  /\ IF o.kind = "RequestError"
       THEN /\ spans' = set_both(spans, stack, "Database service unavailable")
            /\ ret' = HTTPException(503, "Database service unavailable")
            /\ pc' = "unwind"
       ELSE IF o.status # 200
       THEN /\ spans' = set_status(set_status(spans, Top(stack), "User not found"),
                                   1, "Invalid credentials")
            /\ ret' = HTTPException(401, "Invalid credentials")
            /\ pc' = "unwind"
       ELSE /\ pc' = "token_span"
            /\ UNCHANGED <<spans, ret>>
  /\ UNCHANGED <<input, stack, log, seed, response, metrics, storage, nreq, outside>>

\* the call ends with outcome o
GetUserReturns(o) ==
  /\ pc = "user_wait"
  /\ calls' = SetOutcome(calls, o)
  /\ IF o.kind = "RequestError"
       THEN /\ spans' = set_both(spans, stack, "Database service unavailable")
            /\ ret' = HTTPException(503, "Database service unavailable")
            /\ pc' = "unwind"
       ELSE IF o.status # 200
       THEN /\ spans' = set_status(set_status(spans, Top(stack), "User not found"),
                                   1, "Invalid credentials")
            /\ ret' = HTTPException(401, "Invalid credentials")
            /\ pc' = "unwind"
       ELSE IF o.password # credentials.password
       THEN /\ spans' = set_status(set_status(spans, Top(stack), "Invalid password"),
                                   1, "Invalid credentials")
            /\ ret' = HTTPException(401, "Invalid credentials")
            /\ pc' = "unwind"
       ELSE /\ pc' = "token_span"
            /\ UNCHANGED <<spans, ret>>
  /\ UNCHANGED <<input, stack, log, seed, response, metrics, storage, nreq, outside>>

\* with tracer.start_as_current_span("auth.generate_token") as token_span
OpenTokenSpan ==
  /\ pc = "token_span"
  /\ start_as_current_span("auth.generate_token")
  /\ pc' = "generate_token"
  /\ UNCHANGED <<input, calls, seed, ret, response, metrics, storage, nreq, outside>>

\* token = jwt.encode(...); request_duration.record(...); return {"token": ...}
GenerateToken ==
  /\ pc = "generate_token"
  /\ RecordDuration
  /\ ret' = [status |-> 200, body |-> Body("token", credentials.username)]
  /\ pc' = "unwind"
  /\ UNCHANGED <<input, tracing, calls, seed, response, storage, nreq, outside>>

\* validate_token, token_info: if not authorization: set_status(ERROR); raise 401
\* otherwise take the token from the header and enter the auth.decode_token span
CheckToken ==
  /\ pc = "check_token"
  /\ IF NotAuthorization(authorization)
       THEN /\ spans' = set_status(spans, 1, "Missing authorization header")
            /\ ret' = HTTPException(401, "Missing authorization header")
            /\ pc' = "unwind"
            /\ UNCHANGED <<stack, log>>
       ELSE /\ start_as_current_span("auth.decode_token")
            /\ pc' = "decode"
            /\ UNCHANGED ret
  /\ UNCHANGED <<input, calls, seed, response, metrics, storage, nreq, outside>>

\* payload = jwt.decode(...): with a payload the duration is recorded and the
\* handler returns; an exception leaves the auth.decode_token block and is
\* turned into a 401 by the except clauses
DecodeToken(j) ==
  /\ pc = "decode"
  /\ IF j = "payload"
       THEN /\ RecordDuration
            /\ ret' = [status |-> 200,
                       body |-> Body(IF handler = "validate_token" THEN "valid" ELSE "info", "")]
            /\ UNCHANGED tracing
       ELSE /\ end_span(set_status(spans, 1,
                         IF j = "ExpiredSignatureError" THEN "Token expired"
                                                        ELSE "Invalid token"))
            /\ ret' = HTTPException(401, IF j = "ExpiredSignatureError" THEN "Token expired"
                                              ELSE "Invalid token")
            /\ UNCHANGED metrics
  /\ pc' = "unwind"
  /\ drawn' = j
  /\ UNCHANGED <<given, calls, seed, response, storage, nreq, outside>>

\* ------------------------------------------------------------- db handlers
\* store_data, retrieve_data, list_items, delete_data:
\* if not authorization: set_status(ERROR); raise HTTPException(401)
DbCheckAuthorization ==
  /\ pc = "db_check_header"
  /\ IF NotAuthorization(authorization)
       THEN /\ spans' = set_status(spans, 1, "Missing authorization")
            /\ ret' = HTTPException(401, "Missing authorization header")
            /\ pc' = "unwind"
       ELSE /\ pc' = "connect"
            /\ UNCHANGED <<spans, ret>>
  /\ UNCHANGED <<input, stack, log, calls, seed, response, metrics, storage, nreq, outside>>

\* create_user going on to the INSERT whatever it was given
CheckUserAccepting ==
  /\ pc = "check_user"
  /\ pc' = "connect"
  /\ UNCHANGED <<spans, ret>>
  /\ UNCHANGED <<input, stack, log, calls, seed, response, metrics, storage, nreq, outside>>

\* create_user: if not username or not password: set_status(ERROR); raise 400
CheckUser ==
  /\ pc = "check_user"
  /\ IF credentials.username = "" \/ credentials.password = ""
       THEN /\ spans' = set_status(spans, 1, "Missing username or password")
            /\ ret' = HTTPException(400, "Username and password required")
            /\ pc' = "unwind"
       ELSE /\ pc' = "connect"
            /\ UNCHANGED <<spans, ret>>
  /\ UNCHANGED <<input, stack, log, calls, seed, response, metrics, storage, nreq, outside>>

\* conn = get_db_connection()
Connect ==
  /\ pc = "connect"
  /\ conn' = [conn EXCEPT !.opened = @ + 1]
  /\ pc' = "exec_span"
  /\ UNCHANGED <<input, tracing, calls, seed, ret, response, metrics, items, users, nreq, outside>>

\* try: with tracer.start_as_current_span("db.execute_...") as db_span
OpenExecSpan ==
  /\ pc = "exec_span"
  /\ start_as_current_span(ExecSpanName(handler))
  /\ pc' = "execute"
  /\ UNCHANGED <<input, calls, seed, ret, response, metrics, storage, nreq, outside>>

\* conn.rollback(): the statements since the last commit are undone, the
\* tables are as the last commit left them
rollback ==
  /\ conn' = [conn EXCEPT !.rollbacks = @ + 1]
  /\ UNCHANGED <<items, users>>

\* except sqlite3.Error: conn.rollback(); set_status(ERROR); raise
\* HTTPException(500) (the exception, raised by execute or by commit, has
\* left the db.execute_... block)
DatabaseError ==
  /\ rollback
  /\ end_span(set_status(spans, 1, "Database error"))
  /\ ret' = HTTPException(500, "Database error")
  /\ UNCHANGED metrics

\* data_json = json.dumps(data): the text of the JSON document
dumps(d) == <<"json", d>>

\* json.loads(row["data"]); text that is no JSON document is returned as it is
loads(t) == IF Len(t) = 2 /\ t[1] = "json" THEN t[2] ELSE t

\* the ids of the rows of items
ItemIds == {r.id : r \in items}

\* store_data: item_id = str(uuid.uuid4()); INSERT INTO items; commit. The id
\* is the PRIMARY KEY of items: inserting an id that is there already raises
\* sqlite3.IntegrityError, an sqlite3.Error
Insert(q, id) ==
  /\ pc = "execute"
  /\ handler = "store_data"
  /\ IF q = "ok" /\ id \notin ItemIds
       THEN /\ items' = items \cup {[id |-> id, data |-> dumps(arg)]}
            /\ end_span(spans)
            /\ RecordDbDurations
            /\ ret' = [status |-> 200, body |-> Body("stored", id)]
            /\ UNCHANGED <<users, conn>>
       ELSE DatabaseError
  /\ pc' = "finally"
  /\ drawn' = IF q = "ok" /\ id \in ItemIds THEN "sqlite3.IntegrityError" ELSE q
  /\ UNCHANGED <<given, calls, seed, response, nreq, outside>>

\* retrieve_data: SELECT ... FROM items WHERE id = ?; 404 if there is no row
Select(q) ==
  /\ pc = "execute"
  /\ handler = "retrieve_data"
  /\ LET rows == {r \in items : r.id = arg} IN
     IF q = "ok"
       THEN IF rows = {}
              THEN /\ end_span(set_status(spans, 1, "Item not found"))
                   /\ ret' = HTTPException(404, "Item not found")
                   /\ UNCHANGED metrics
              ELSE /\ end_span(spans)
                   /\ RecordDbDurations
                   /\ ret' = [status |-> 200,
                              body |-> [Body("item", arg) EXCEPT
                                           !.data = loads((CHOOSE r \in rows : TRUE).data)]]
       ELSE /\ end_span(set_status(spans, 1, "Database error"))
            /\ ret' = HTTPException(500, "Database error")
            /\ UNCHANGED metrics
  /\ pc' = "finally"
  /\ drawn' = q
  /\ UNCHANGED <<given, calls, seed, response, storage, nreq, outside>>

\* list_items: SELECT ... FROM items ORDER BY created_at DESC LIMIT ?
SelectAll(q) ==
  /\ pc = "execute"
  /\ handler = "list_items"
  /\ IF q = "ok"
       THEN /\ end_span(spans)
            /\ RecordDbDurations
            /\ ret' = [status |-> 200,
                       body |-> [Body("list", "") EXCEPT !.n = Cardinality(items)]]
       ELSE /\ end_span(set_status(spans, 1, "Database error"))
            /\ ret' = HTTPException(500, "Database error")
            /\ UNCHANGED metrics
  /\ pc' = "finally"
  /\ drawn' = q
  /\ UNCHANGED <<given, calls, seed, response, storage, nreq, outside>>

\* a delete that answers 200 for a row it leaves in the table
DeleteKeeping(q) ==
  /\ pc = "execute"
  /\ handler = "delete_data"
  /\ LET rows == {r \in items : r.id = arg} IN
     IF q = "ok"
       THEN /\ UNCHANGED <<items, users, conn>>
            /\ IF rows = {}
                 THEN /\ end_span(set_status(spans, 1, "Item not found"))
                      /\ ret' = HTTPException(404, "Item not found")
                      /\ UNCHANGED metrics
                 ELSE /\ end_span(spans)
                      /\ RecordDbDurations
                      /\ ret' = [status |-> 200, body |-> Body("deleted", arg)]
       ELSE DatabaseError
  /\ pc' = "finally"
  /\ drawn' = q
  /\ UNCHANGED <<given, calls, seed, response, nreq, outside>>

\* delete_data: DELETE FROM items WHERE id = ?; commit; 404 if rowcount == 0
Delete(q) ==
  /\ pc = "execute"
  /\ handler = "delete_data"
  /\ LET rows == {r \in items : r.id = arg} IN
     IF q = "ok"
       THEN /\ items' = items \ rows
            /\ UNCHANGED <<users, conn>>
            /\ IF rows = {}
                 THEN /\ end_span(set_status(spans, 1, "Item not found"))
                      /\ ret' = HTTPException(404, "Item not found")
                      /\ UNCHANGED metrics
                 ELSE /\ end_span(spans)
                      /\ RecordDbDurations
                      /\ ret' = [status |-> 200, body |-> Body("deleted", arg)]
       ELSE DatabaseError
  /\ pc' = "finally"
  /\ drawn' = q
  /\ UNCHANGED <<given, calls, seed, response, nreq, outside>>

\* get_user: SELECT username, password FROM users WHERE username = ?
SelectUser(q) ==
  /\ pc = "execute"
  /\ handler = "get_user"
  /\ IF q = "ok"
       THEN IF credentials.username \notin DOMAIN users
              THEN /\ end_span(set_status(spans, 1, "User not found"))
                   /\ ret' = HTTPException(404, "User not found")
                   /\ UNCHANGED metrics
              ELSE /\ end_span(spans)
                   /\ RecordDbDurations
                   /\ ret' = [status |-> 200,
                              body |-> [Body("user", credentials.username) EXCEPT
                                           !.data = users[credentials.username]]]
       ELSE /\ end_span(set_status(spans, 1, "Database error"))
            /\ ret' = HTTPException(500, "Database error")
            /\ UNCHANGED metrics
  /\ pc' = "finally"
  /\ drawn' = q
  /\ UNCHANGED <<given, calls, seed, response, storage, nreq, outside>>

\* create_user: INSERT INTO users; commit; IntegrityError (the username is
\* the primary key) gives 409
InsertUser(q) ==
  /\ pc = "execute"
  /\ handler = "create_user"
  /\ IF q = "ok"
       THEN IF credentials.username \in DOMAIN users
              THEN /\ rollback
                   /\ end_span(set_status(spans, 1, "User already exists"))
                   /\ ret' = HTTPException(409, "User already exists")
                   /\ UNCHANGED metrics
              ELSE /\ users' = [u \in DOMAIN users \cup {credentials.username} |->
                                  IF u = credentials.username THEN credentials.password
                                                              ELSE users[u]]
                   /\ end_span(spans)
                   /\ RecordDbDurations
                   /\ ret' = [status |-> 200, body |-> Body("created", credentials.username)]
                   /\ UNCHANGED <<items, conn>>
       ELSE DatabaseError
  /\ pc' = "finally"
  /\ drawn' = q
  /\ UNCHANGED <<given, calls, seed, response, nreq, outside>>

\* a handler that returns without closing its connection
FinallyLeavingOpen ==
  /\ pc = "finally"
  /\ pc' = "unwind"
  /\ UNCHANGED <<input, tracing, calls, seed, ret, response, metrics, storage, nreq, outside>>

\* finally: conn.close()
Finally ==
  /\ pc = "finally"
  /\ conn' = [conn EXCEPT !.closed = @ + 1]
  /\ pc' = "unwind"
  /\ UNCHANGED <<input, tracing, calls, seed, ret, response, metrics, items, users, nreq, outside>>

\* ------------------------------------------------------ leaving a handler
\* a return or a raised HTTPException leaves the enclosing `with` blocks one
\* by one, innermost first
Unwind ==
  /\ pc = "unwind"
  /\ stack # <<>>
  /\ end_span(spans)
  /\ UNCHANGED <<input, pc, calls, seed, ret, response, metrics, storage, nreq, outside>>

\* the framework turns the return value or the HTTPException into the response
Respond ==
  /\ pc = "unwind"
  /\ stack = <<>>
  /\ response' = ret
  /\ pc' = "done"
  /\ UNCHANGED <<input, tracing, calls, seed, ret, metrics, storage, nreq, outside>>

\* ------------------------------------------------------ baseline services
\* The handlers of baseline/app.py, baseline/auth.py and baseline/db.py as
\* functions of the request and of what the environment answers: o is the
\* sequence of the outcomes of the collaborator calls, in call order.
Answer(o, k) == IF k \in DOMAIN o THEN o[k] ELSE Pending

Target(svc, op, item) == <<svc, op, item>>

\* the header test and the /validate call every baseline app handler begins
\* with; the response is NoResponse when the handler goes on
baseline_validate(a, o) ==
  IF NotAuthorization(a)
    THEN [calls |-> <<>>, response |-> HTTPException(401, "Missing authorization header")]
    ELSE [calls |-> <<Target("auth", "/validate", 0)>>,
          response |-> IF Answer(o, 1).kind = "RequestError"
                         THEN HTTPException(503, "Auth service unavailable")
                       ELSE IF Answer(o, 1).status # 200
                         THEN HTTPException(401, "Invalid token")
                       ELSE NoResponse]

baseline_create_data(a, o) ==
  LET v == baseline_validate(a, o) IN
  IF v.response # NoResponse THEN v
  ELSE [calls |-> Append(v.calls, Target("db", "/store", 0)),
        response |-> IF Answer(o, 2).kind = "RequestError"
                       THEN HTTPException(503, "Database service unavailable")
                     ELSE IF Answer(o, 2).status # 200
                       THEN HTTPException(500, "Database operation failed")
                     ELSE [status |-> 200, body |-> Body("json", Answer(o, 2).id)]]

baseline_get_data(a, o) ==
  LET v == baseline_validate(a, o) IN
  IF v.response # NoResponse THEN v
  ELSE [calls |-> Append(v.calls, Target("db", "/retrieve", 0)),
        response |-> IF Answer(o, 2).kind = "RequestError"
                       THEN HTTPException(503, "Database service unavailable")
                     ELSE IF Answer(o, 2).status = 404
                       THEN HTTPException(404, "Item not found")
                     ELSE IF Answer(o, 2).status # 200
                       THEN HTTPException(500, "Database operation failed")
                     ELSE [status |-> 200, body |-> Body("json", Answer(o, 2).id)]]

baseline_get_preset_data(a, x, o) ==
  LET v == baseline_validate(a, o) IN
  IF v.response # NoResponse THEN v
  ELSE [calls |-> v.calls,
        response |-> IF x \in preset_data
                       THEN [status |-> 200, body |-> Body("preset", x)]
                       ELSE HTTPException(404, "Preset not found")]

baseline_list_presets(a, o) ==
  LET v == baseline_validate(a, o) IN
  IF v.response # NoResponse THEN v
  ELSE [calls |-> v.calls, response |-> [status |-> 200, body |-> Body("presets", "")]]

\* for item in seed_items: a 200 appends the id, anything else is passed over
baseline_seed_preset_data(a, o) ==
  LET v == baseline_validate(a, o) IN
  IF v.response # NoResponse THEN v
  ELSE LET answers == [k \in 1..NumSeedItems |-> Answer(o, 1 + k)]
           stored == SelectSeq(answers, LAMBDA r : r.kind = "response" /\ r.status = 200)
           ids == [k \in 1..Len(stored) |-> stored[k].id]
       IN [calls |-> v.calls \o [k \in 1..NumSeedItems |-> Target("db", "/store", k)],
           response |-> [status |-> 200,
                         body |-> [NoBody EXCEPT !.kind = "seeded", !.n = Len(ids),
                                                 !.ids = ids]]]

baseline_login(c, o) ==
  IF c.username = "" \/ c.password = ""
    THEN [calls |-> <<>>, response |-> HTTPException(401, "Username and password required")]
    ELSE [calls |-> <<Target("db", "/user", 0)>>,
          response |-> IF Answer(o, 1).kind = "RequestError"
                         THEN HTTPException(503, "Database service unavailable")
                       ELSE IF Answer(o, 1).status # 200
                         THEN HTTPException(401, "Invalid credentials")
                       ELSE IF Answer(o, 1).password # c.password
                         THEN HTTPException(401, "Invalid credentials")
                       ELSE [status |-> 200, body |-> Body("token", c.username)]]

\* validate_token and token_info; j is what jwt.decode does with the token
baseline_decode(h, a, j) ==
  [calls |-> <<>>,
   response |-> IF NotAuthorization(a)
                  THEN HTTPException(401, "Missing authorization header")
                ELSE IF j = "payload"
                  THEN [status |-> 200,
                        body |-> Body(IF h = "validate_token" THEN "valid" ELSE "info", "")]
                ELSE IF j = "ExpiredSignatureError"
                  THEN HTTPException(401, "Token expired")
                ELSE HTTPException(401, "Invalid token")]

baseline_service(h, a, x, c, o, j) ==
  CASE h = "create_data" -> baseline_create_data(a, o)
    [] h = "get_data" -> baseline_get_data(a, o)
    [] h = "get_preset_data" -> baseline_get_preset_data(a, x, o)
    [] h = "list_presets" -> baseline_list_presets(a, o)
    [] h = "seed_preset_data" -> baseline_seed_preset_data(a, o)
    [] h = "login" -> baseline_login(c, o)
    [] h \in {"validate_token", "token_info"} -> baseline_decode(h, a, j)

\* what a baseline db handler leaves: its response, the tables, and what it
\* did with its connection
Left(r, its, us, opened, rollbacks) ==
  [response |-> r, items |-> its, users |-> us, opened |-> opened, closed |-> opened,
   rollbacks |-> rollbacks]

Unauthorized(its, us) ==
  Left(HTTPException(401, "Missing authorization header"), its, us, 0, 0)

\* q is what the SQL statement does, id the uuid4 drawn by store_data
baseline_store_data(a, x, its, us, q, id) ==
  IF NotAuthorization(a) THEN Unauthorized(its, us)
  ELSE IF q # "ok" THEN Left(HTTPException(500, "Database error"), its, us, 1, 1)
  ELSE Left([status |-> 200, body |-> Body("stored", id)],
            its \cup {[id |-> id, data |-> dumps(x)]}, us, 1, 0)

baseline_retrieve_data(a, x, its, us, q) ==
  IF NotAuthorization(a) THEN Unauthorized(its, us)
  ELSE IF q # "ok" THEN Left(HTTPException(500, "Database error"), its, us, 1, 0)
  ELSE IF \A r \in its : r.id # x
    THEN Left(HTTPException(404, "Item not found"), its, us, 1, 0)
  ELSE Left([status |-> 200,
             body |-> [Body("item", x) EXCEPT
                          !.data = loads((CHOOSE r \in its : r.id = x).data)]],
            its, us, 1, 0)

baseline_list_items(a, its, us, q) ==
  IF NotAuthorization(a) THEN Unauthorized(its, us)
  ELSE IF q # "ok" THEN Left(HTTPException(500, "Database error"), its, us, 1, 0)
  ELSE Left([status |-> 200, body |-> [Body("list", "") EXCEPT !.n = Cardinality(its)]],
            its, us, 1, 0)

baseline_delete_data(a, x, its, us, q) ==
  IF NotAuthorization(a) THEN Unauthorized(its, us)
  ELSE IF q # "ok" THEN Left(HTTPException(500, "Database error"), its, us, 1, 1)
  ELSE IF \A r \in its : r.id # x
    THEN Left(HTTPException(404, "Item not found"), its, us, 1, 0)
  ELSE Left([status |-> 200, body |-> Body("deleted", x)],
            {r \in its : r.id # x}, us, 1, 0)

baseline_get_user(c, its, us, q) ==
  IF q # "ok" THEN Left(HTTPException(500, "Database error"), its, us, 1, 0)
  ELSE IF c.username \notin DOMAIN us
    THEN Left(HTTPException(404, "User not found"), its, us, 1, 0)
  ELSE Left([status |-> 200,
             body |-> [Body("user", c.username) EXCEPT !.data = us[c.username]]],
            its, us, 1, 0)

baseline_create_user(c, its, us, q) ==
  IF c.username = "" \/ c.password = ""
    THEN Left(HTTPException(400, "Username and password required"), its, us, 0, 0)
  ELSE IF q # "ok" THEN Left(HTTPException(500, "Database error"), its, us, 1, 1)
  ELSE IF c.username \in DOMAIN us
    THEN Left(HTTPException(409, "User already exists"), its, us, 1, 1)
  ELSE Left([status |-> 200, body |-> Body("created", c.username)], its,
            [u \in DOMAIN us \cup {c.username} |->
               IF u = c.username THEN c.password ELSE us[u]], 1, 0)

baseline_db(h, a, x, c, its, us, q, id) ==
  CASE h = "store_data" -> baseline_store_data(a, x, its, us, q, id)
    [] h = "retrieve_data" -> baseline_retrieve_data(a, x, its, us, q)
    [] h = "list_items" -> baseline_list_items(a, its, us, q)
    [] h = "delete_data" -> baseline_delete_data(a, x, its, us, q)
    [] h = "get_user" -> baseline_get_user(c, its, us, q)
    [] h = "create_user" -> baseline_create_user(c, its, us, q)

\* ------------------------------------------------------------- requests
NoCredentials == [username |-> "", password |-> ""]

\* the requests a client can send to handler h: <<authorization, arg, credentials>>
Requests(h) ==
  CASE h \in {"create_data", "list_presets", "seed_preset_data", "validate_token",
              "token_info", "list_items"} ->
         {<<a, "", NoCredentials>> : a \in Headers}
    [] h = "get_data" -> {<<a, x, NoCredentials>> : a \in Headers, x \in Ids}
    [] h = "get_preset_data" -> {<<a, x, NoCredentials>> : a \in Headers, x \in PresetIds}
    [] h = "store_data" -> {<<a, x, NoCredentials>> : a \in Headers, x \in Data}
    [] h \in {"retrieve_data", "delete_data"} ->
         {<<a, x, NoCredentials>> : a \in Headers, x \in Uuids}
    [] h \in {"login", "create_user"} ->
         {<<NoHeader, "", [username |-> u, password |-> p]>> : u \in Usernames, p \in Passwords}
    [] h = "get_user" ->
         {<<NoHeader, "", [username |-> u, password |-> ""]>> : u \in Usernames \ {""}}

Next ==
  \/ \E h \in Handlers : \E r \in Requests(h) : Receive(h, r[1], r[2], r[3])
  \/ OpenRoot
  \/ CheckAuthorization
  \/ CallValidate
  \/ \E o \in AuthOutcomes : ValidateReturns(o)
  \/ ExitValidate
  \/ OpenDbSpan
  \/ CallDb
  \/ \E o \in StoreOutcomes : StoreReturns(o)
  \/ \E o \in RetrieveOutcomes : RetrieveReturns(o)
  \/ PresetLookup
  \/ ListPresets
  \/ OpenSeedItems
  \/ SeedLoop
  \/ CallStoreItem
  \/ \E o \in StoreOutcomes : StoreItemReturns(o)
  \/ ExitSeedItem
  \/ SeedReturn
  \/ CheckCredentials
  \/ CallGetUser
  \/ \E o \in UserOutcomes : GetUserReturns(o)
  \/ OpenTokenSpan
  \/ GenerateToken
  \/ CheckToken
  \/ \E j \in JwtOutcomes : DecodeToken(j)
  \/ DbCheckAuthorization
  \/ CheckUser
  \/ Connect
  \/ OpenExecSpan
  \/ \E q \in SqlOutcomes, id \in Uuids : Insert(q, id)
  \/ \E q \in SqlOutcomes : Select(q)
  \/ \E q \in SqlOutcomes : SelectAll(q)
  \/ \E q \in SqlOutcomes : Delete(q)
  \/ \E q \in SqlOutcomes : SelectUser(q)
  \/ \E q \in SqlOutcomes : InsertUser(q)
  \/ Finally
  \/ Unwind
  \/ Respond

Spec == Init /\ [][Next]_vars

\* the same services, called with trace-context headers
SpecTrace == InitTrace /\ [][Next]_vars

\* the app service under concurrent requests, with the exporter running
SpecTasks == Init /\ [][NextTasks]_vars

\* a service process from the import of its module on
SpecStartup == InitImport /\ [][NextStartup]_vars

\* the lab4 application serving /; a call that has begun keeps running: every
\* cache.incr returns or raises and every sleep ends
SpecHits == Init /\ [][NextHits]_vars /\ WF_vars(Running)

\* one run of the traffic generator
InitRun ==
  /\ InitRequests
  /\ InitTasks
  /\ Serving
  /\ InitStats
  /\ Configured
  /\ InitLab4
  /\ inbound = {NoTraceparent}
  /\ budget = MaxRequests

SpecRun == InitRun /\ [][NextRun]_vars

\* threads of the traffic generator calling make_request
SpecStats == Init /\ [][NextStats]_vars

\* ======================================================================
\* Properties
\* ======================================================================
Range(f) == {f[i] : i \in DOMAIN f}
SpanIds == 1..Len(spans)
CallIds == 1..Len(calls)
Finished == pc = "done"

\* the open/close events l are properly nested, starting from the open spans st
RECURSIVE Nested(_, _)
Nested(l, st) ==
  IF l = <<>> THEN TRUE
  ELSE LET e == Head(l) IN
       IF e[1] = "open"
         THEN Nested(Tail(l), Append(st, e[2]))
         ELSE /\ st # <<>>
              /\ Top(st) = e[2]
              /\ Nested(Tail(l), SubSeq(st, 1, Len(st) - 1))

Events(kind) == {k \in 1..Len(log) : log[k][1] = kind}

\* C1: on every exit path of every handler each span the request opened is
\* closed exactly once, a child span is closed before its parent (closes are
\* strictly last-in-first-out), and no span is open when the request ends.
C1_SpansClosedOnceLifo ==
  /\ \A i \in SpanIds : spans[i].ended <= 1
  /\ Nested(log, <<>>)
  /\ \A i \in SpanIds :
       spans[i].parent # 0 /\ spans[spans[i].parent].ended > 0 => spans[i].ended > 0
  /\ Finished =>
       /\ spans # <<>>
       /\ \A i \in SpanIds : spans[i].ended = 1
       /\ stack = <<>>
       /\ Cardinality(Events("open")) = Cardinality(Events("close"))

\* a request that raised an HTTPException inside a child span has ended
C1_Witness ==
  /\ Finished
  /\ response.status = 503
  /\ Len(spans) >= 2
  /\ Len(log) = 2 * Len(spans)

\* C2: in every app handler a request whose Authorization header is absent
\* or empty ends with 401; no span besides the root span is opened and
\* neither the auth service nor the db service is called.
C2_MissingHeaderUnauthenticated ==
  (handler \in AppHandlers /\ authorization \in {NoHeader, ""}) =>
     /\ Len(spans) <= 1
     /\ calls = <<>>
     /\ Finished => response.status = 401

\* an app request with an empty Authorization header has been answered
C2_Witness ==
  /\ Finished
  /\ handler \in AppHandlers
  /\ authorization = ""
  /\ Len(spans) = 1
  /\ spans[1].ended = 1

\* C3: in every app handler, when the token-validation call fails with
\* httpx.RequestError (timeout, connection refused) the request ends with
\* 503 and the db service is not called for that request.
C3_AuthUnavailable ==
  (/\ handler \in AppHandlers
   /\ calls # <<>>
   /\ calls[1].svc = "auth"
   /\ calls[1].outcome.kind = "RequestError") =>
     /\ \A k \in CallIds : calls[k].svc # "db"
     /\ pc \in {"unwind", "done"}
     /\ ret.status = 503
     /\ Finished => response.status = 503

\* a seed request whose validation call could not connect has been answered
C3_Witness ==
  /\ Finished
  /\ handler = "seed_preset_data"
  /\ calls # <<>>
  /\ calls[1].outcome.kind = "RequestError"
  /\ response.status = 503

\* the state of the request in the state machine of the endpoint pattern
ReqState ==
  CASE pc = "idle" -> "Idle"
    [] pc \in {"root", "check_header", "auth_call"} -> "Started"
    [] pc = "auth_wait" -> "AuthPending"
    [] pc \in {"auth_exit", "db_span", "db_call", "preset", "presets", "seed_span",
               "seed_loop", "item_call", "item_exit", "seed_return"} -> "Authorized"
    [] pc \in {"db_wait", "item_wait"} -> "CollaboratorPending"
    [] OTHER ->
         CASE ret.status = 200 -> "Success"
           [] ret.status = 401 -> "Unauthorized"
           [] ret.status = 404 -> "NotFound"
           [] ret.status = 500 -> "CollaboratorError"
           [] ret.status = 503 ->
                IF \E k \in CallIds : calls[k].svc = "db"
                  THEN "CollaboratorUnavailable" ELSE "AuthUnavailable"
           [] OTHER -> "Other"

TerminalStates == {"Success", "Unauthorized", "AuthUnavailable", "NotFound",
                   "CollaboratorError", "CollaboratorUnavailable"}

\* the steps of the state machine; a request without a header is rejected
\* in Started, and seed_preset_data returns to Authorized between its items
Allowed ==
  {<<"Started", "AuthPending">>, <<"Started", "Unauthorized">>,
   <<"AuthPending", "Authorized">>, <<"AuthPending", "Unauthorized">>,
   <<"AuthPending", "AuthUnavailable">>,
   <<"Authorized", "CollaboratorPending">>, <<"Authorized", "Success">>,
   <<"Authorized", "NotFound">>,
   <<"CollaboratorPending", "Authorized">>, <<"CollaboratorPending", "Success">>,
   <<"CollaboratorPending", "NotFound">>, <<"CollaboratorPending", "CollaboratorError">>,
   <<"CollaboratorPending", "CollaboratorUnavailable">>}

C8_NoRetries ==
  /\ Cardinality({k \in CallIds : calls[k].svc = "auth"}) <= 1
  /\ \A j, k \in CallIds :
       (calls[j].svc = calls[k].svc /\ calls[j].op = calls[k].op
          /\ calls[j].item = calls[k].item) => j = k
  /\ \A k \in CallIds : calls[k].item <= NumSeedItems
  /\ handler # "seed_preset_data" => Len(calls) <= (IF handler \in {"create_data", "get_data"} THEN 2 ELSE 1)
  /\ handler = "seed_preset_data" => Len(calls) <= 1 + NumSeedItems

\* a seed request has finished after a failed attempt for one of its items
C8_Witness ==
  /\ Finished
  /\ handler = "seed_preset_data"
  /\ Len(calls) = 1 + NumSeedItems
  /\ \E k \in CallIds : calls[k].svc = "db" /\ calls[k].outcome.kind = "RequestError"
  /\ \E k \in CallIds : calls[k].svc = "db" /\ calls[k].outcome.status = 500

\* the observations of instrument name the request has recorded
Observed(name) == {k \in 1..Len(obs) : obs[k].inst = name}

\* observation k carries the method, the route and the status st
TaggedWith(k, st) ==
  /\ DOMAIN obs[k].tags = {"method", "endpoint", "status"}
  /\ obs[k].tags.method = Method(handler)
  /\ obs[k].tags.endpoint = Endpoint(handler)
  /\ obs[k].tags.status = ToString(st)

\* C5: every request that reaches a terminal state has recorded exactly one
\* count observation and exactly one duration observation before it returns,
\* each tagged with method, route and the final status of the request.
C5_OneCountOneDuration ==
  Finished =>
    /\ Cardinality(Observed("http_requests_total")) = 1
    /\ Cardinality(Observed("http_request_duration_seconds")) = 1
    /\ \A k \in Observed("http_requests_total") \cup Observed("http_request_duration_seconds") :
         TaggedWith(k, response.status)

\* C6: when a collaborator is reachable but answers with a 5xx status the
\* caller receives 500: for the token-validation call of the app handlers,
\* the user lookup of login and the storage calls.
C6_InternalFailureIs500 ==
  (/\ Finished
   /\ \E k \in CallIds : calls[k].outcome.kind = "response" /\ calls[k].outcome.status >= 500)
    => response.status = 500

\* C7: in create_data, get_data and seed_preset_data a storage call that
\* cannot connect or times out makes the request end with 503.
C7_StorageUnavailableIs503 ==
  (/\ Finished
   /\ handler \in {"create_data", "get_data", "seed_preset_data"}
   /\ \E k \in CallIds : calls[k].svc = "db" /\ calls[k].outcome.kind = "RequestError")
    => response.status = 503

\* the call failed: a non-2xx status or a connection failure
FailedCall(c) ==
  \/ c.outcome.kind = "RequestError"
  \/ c.outcome.kind = "response" /\ (c.outcome.status < 200 \/ c.outcome.status >= 300)

\* C9: whenever a collaborator call returns a non-2xx status or fails to
\* connect, the span wrapping the call and the root span are closed with
\* status error and a message, and the request ends with a failure status.
C9_FailedCallMarksSpans ==
  Finished =>
    \A k \in CallIds : FailedCall(calls[k]) =>
       /\ spans[calls[k].span].status = "error"
       /\ spans[calls[k].span].msg # ""
       /\ spans[1].status = "error"
       /\ spans[1].msg # ""
       /\ response.status # 200

\* C10: create_data with an accepted token and a storage call that returns
\* 200 with an id returns 200 with that id, closes the root span with status
\* ok, and records exactly one count observation and one duration
\* observation tagged with the endpoint and status 200.
C10_CreateDataSuccess ==
  (/\ Finished
   /\ handler = "create_data"
   /\ Len(calls) = 2
   /\ calls[1].outcome = Resp(200)
   /\ calls[2].outcome.kind = "response"
   /\ calls[2].outcome.status = 200) =>
     /\ response.status = 200
     /\ response.body.id = calls[2].outcome.id
     /\ spans[1].ended = 1
     /\ spans[1].status # "error"
     /\ Cardinality(Observed("http_requests_total")) = 1
     /\ Cardinality(Observed("http_request_duration_seconds")) = 1
     /\ \A k \in Observed("http_requests_total") \cup Observed("http_request_duration_seconds") :
          /\ obs[k].tags.endpoint = "/api/data"
          /\ "status" \in DOMAIN obs[k].tags
          /\ obs[k].tags.status = "200"

\* the status messages of the source that contain "not found"
NotFoundMessages == {"Item not found", "User not found", "Preset not found"}

\* C11: in get_data, when the storage call answers 404 for the requested id,
\* the handler answers 404 (never 500, never 200) and both the db span and
\* the root span carry error status with a message containing "not found".
C11_NotFound ==
  (/\ handler = "get_data"
   /\ Len(calls) = 2
   /\ calls[2].outcome.kind = "response"
   /\ calls[2].outcome.status = 404)
  => /\ ret.status = 404
     /\ spans[calls[2].span].status = "error"
     /\ spans[calls[2].span].msg \in NotFoundMessages
     /\ spans[1].status = "error"
     /\ spans[1].msg \in NotFoundMessages
     /\ Finished => response.status = 404

C11_Witness ==
  /\ Finished
  /\ handler = "get_data"
  /\ Len(calls) = 2
  /\ calls[2].op = "/retrieve"
  /\ calls[2].outcome.kind = "response"
  /\ calls[2].outcome.status = 404
  /\ response.status = 404

\* C12: every endpoint that performs a SQL statement first has the bearer
\* token validated by another service: no db-service storage operation
\* (store, retrieve, list, delete, get_user, create_user) is executed for a
\* request whose token the auth service has not validated.
C12_StorageAfterValidation ==
  (handler \in DbHandlers /\ conn.opened > 0)
  => \E k \in CallIds : /\ calls[k].svc = "auth"
                        /\ calls[k].op = "/validate"
                        /\ calls[k].outcome.kind = "response"
                        /\ calls[k].outcome.status = 200

\* C13: for every db-service storage endpoint, a request without an
\* Authorization header is answered 401, no child span is opened, and the
\* stored items and users are neither read nor modified.
C13_NoHeaderNoStorage ==
  (handler \in DbHandlers /\ authorization = NoHeader)
  => /\ Len(spans) <= 1
     /\ conn.opened = 0
     /\ Finished => response.status = 401

\* the tag values written as literals in the sources
MethodNames == {"GET", "POST", "DELETE"}
RouteTemplates ==
  {"/api/data", "/api/data/{id}", "/api/preset/{id}", "/api/presets", "/api/seed",
   "/login", "/validate", "/token/info",
   "/store", "/retrieve/{id}", "/list", "/delete/{id}", "/user/{username}", "/user"}
OperationNames == {"insert", "select", "delete"}
TableNames == {"items", "users"}
StatusCodes == {"200"}
FixedTagValues ==
  MethodNames \cup RouteTemplates \cup OperationNames \cup TableNames \cup StatusCodes

\* what a request carries: item ids, preset ids, payloads, user names, passwords
RequestDerived ==
  (Ids \cup Uuids \cup PresetIds \cup Data \cup Usernames \cup Passwords) \ {""}

\* every tag-set recorded so far, by this request or held by an instrument
RecordedTagSets ==
  {o.tags : o \in Range(obs)}
    \cup UNION {BagToSet(request_counter[sv]) : sv \in Services}
    \cup UNION {BagToSet(request_duration[sv]) : sv \in Services}
    \cup BagToSet(db_operations_counter)
    \cup BagToSet(db_operation_duration)

\* C19: every metric observation's tag-set takes its values from a fixed
\* finite set (method names, route templates, operation names, table names,
\* status codes), never from the request (item ids, preset ids, user names),
\* so the number of distinct tag-sets stays bounded whatever is requested.
C19_BoundedTagSets ==
  /\ \A t \in RecordedTagSets : \A k \in DOMAIN t :
        t[k] \in FixedTagValues /\ t[k] \notin RequestDerived
  /\ \A sv \in Services :
        /\ Cardinality(BagToSet(request_counter[sv])) <= Cardinality(Handlers)
        /\ Cardinality(BagToSet(request_duration[sv])) <= Cardinality(Handlers)
  /\ Cardinality(BagToSet(db_operations_counter)) <= Cardinality(DbHandlers)
  /\ Cardinality(BagToSet(db_operation_duration)) <= Cardinality(DbHandlers)

C19_Witness ==
  /\ Finished
  /\ nreq = MaxRequests
  /\ handler = "get_data"
  /\ arg \in Ids
  /\ response.status = 200
  /\ \E i \in DOMAIN obs : obs[i].inst = "http_request_duration_seconds"
  /\ \E t \in BagToSet(request_duration["app"]) : request_duration["app"][t] = MaxRequests

MissingOrMalformed ==
  {NoTraceparent,
   <<"garbage">>,
   <<"00", "4bf92f35", "b7ad6b71">>,
   <<"00", "not-an-id", "b7ad6b71", "01">>}

C16_TaskLocalContext ==
  /\ [](\A t \in Tasks :
          /\ CurrentSpan(t) = IF t_scopes[t] = <<>> THEN NoSpan
                               ELSE <<t, t_scopes[t][Len(t_scopes[t])].span>>
          /\ \A i \in DOMAIN t_spans[t] :
                t_spans[t][i].parent = IF i = 1 THEN NoSpan ELSE <<t, 1>>)
  /\ [][\A u \in Tasks : t_pc'[u] = t_pc[u] => CurrentSpan(u)' = CurrentSpan(u)]_vars

C16_Witness ==
  \E t, u \in Tasks :
     /\ t # u
     /\ t_pc[t] = "done"
     /\ t_response[t] = 200
     /\ t_pc[u] = "db_wait"
     /\ Len(t_calls[t]) = 2
     /\ current[u] = <<u, 3>>
     /\ current[t] = NoSpan

\* C17: N add calls on http_requests_total with one tag-set, made by request
\* tasks that run concurrently, leave a cumulative value equal to the sum of
\* their deltas, however the tasks interleave.
C17_NoLostUpdates ==
  http_requests_total = Cardinality({t \in Tasks : t_pc[t] \notin {"idle", "adding"}})

C17_Witness ==
  /\ \A t \in Tasks : t_pc[t] = "auth_wait"
  /\ http_requests_total = NumTasks

\* the status create_data answers, from the request and the outcomes of its calls
CreateDataStatus(a, cs) ==
  IF a \in {NoHeader, ""} THEN 401
  ELSE IF cs[1].kind = "RequestError" THEN 503
  ELSE IF cs[1].status # 200 THEN 401
  ELSE IF cs[2].kind = "RequestError" THEN 503
  ELSE IF cs[2].status # 200 THEN 500
  ELSE 200

\* C18: export never affects the request path: whatever the collector does,
\* each request is answered from its header and the outcomes of its own
\* calls alone, an export step changes nothing of any request, and a failed
\* batch is dropped.
C18_ExportOffRequestPath ==
  /\ [](\A t \in Tasks :
          t_pc[t] = "done" => t_response[t] = CreateDataStatus(t_authorization[t], t_calls[t]))
  /\ [][(in_flight' # in_flight \/ exported' # exported \/ dropped' # dropped)
          => UNCHANGED <<t_pc, t_authorization, t_calls, t_spans, t_scopes, current,
                         t_response, http_requests_total, http_request_durations>>]_vars
  /\ [][dropped' # dropped
          => /\ dropped' = dropped + in_flight
             /\ in_flight' = 0
             /\ pending' = pending
             /\ exported' = exported]_vars

C18_Witness ==
  /\ dropped > 0
  /\ exported = 0
  /\ in_flight = 0
  /\ \A t \in Tasks : t_pc[t] = "done" /\ t_response[t] = 200

\* C20: each metric instrument is created once per process, by name, with a
\* fixed unit, and is reused for every request; a create call for a name that
\* exists with another unit fails as a fatal configuration error during
\* startup, and never while requests are served.
C20_InstrumentsCreatedOnce ==
  /\ [](\A r1, r2 \in registry : r1.name = r2.name => r1 = r2)
  /\ [](proc = "serving"
          => \A k \in DOMAIN attempts :
               \A j \in 1..k : attempts[j].name = attempts[k].name
                                 => attempts[j].unit = attempts[k].unit)
  /\ [][proc = "serving" => proc' = "serving" /\ registry' = registry]_vars
  /\ [][\A r \in registry : r \in registry']_vars
  /\ [][(attempts' # attempts
          /\ \E r \in registry :
                /\ r.name = attempts'[Len(attempts')].name
                /\ r.unit # attempts'[Len(attempts')].unit)
         => /\ proc = "importing"
            /\ proc' = "aborted"
            /\ registry' = registry]_vars

C20_Witness ==
  /\ proc = "aborted"
  /\ Len(attempts) = 4
  /\ attempts[3] = DbInstruments[1]
  /\ attempts[4] = Instrument("db_operations_total", "counter", "s")
  /\ DbInstruments[1] \in registry

\* the db service answered the user lookup of login with a user whose stored
\* password is the one given
ValidCredentials ==
  /\ Len(calls) = 1
  /\ calls[1].outcome.kind = "response"
  /\ calls[1].outcome.status = 200
  /\ calls[1].outcome.password = credentials.password

\* C21: login answers 200 with a token only if the user lookup answered 200
\* and the stored password equals the given one; with a missing username or
\* password it answers 401 without calling the db service; for an unknown
\* user or a wrong password it answers 401 and the auth.generate_token span
\* is never opened.
C21_TokenForValidCredentialsOnly ==
  handler = "login"
  => /\ (ret.status = 200 \/ \E i \in SpanIds : spans[i].name = "auth.generate_token")
          => ValidCredentials
     /\ ret.status = 200 => ret.body.kind = "token"
     /\ (credentials.username = "" \/ credentials.password = "")
          => /\ calls = <<>>
             /\ ret.status \in {0, 401}
             /\ Finished => response.status = 401
     /\ (/\ Len(calls) = 1
         /\ calls[1].outcome.kind = "response"
         /\ (calls[1].outcome.status # 200
               \/ calls[1].outcome.password # credentials.password))
          => /\ ret.status = 401
             /\ \A i \in SpanIds : spans[i].name # "auth.generate_token"
             /\ Finished => response.status = 401

C21_Witness ==
  /\ Finished
  /\ handler = "login"
  /\ ValidCredentials
  /\ response.status = 200
  /\ response.body.kind = "token"
  /\ \E i \in SpanIds : spans[i].name = "auth.generate_token" /\ spans[i].ended = 1

\* C29: whenever the lock of the traffic generator is free, total_requests =
\* successful + failed + errors and len(latencies) = total_requests, and
\* total_requests counts the completed GET/POST calls once each; a call with
\* another method changes no statistic.
C29_StatsConsistentOutsideLock ==
  /\ [](stats_lock = 0 =>
          /\ total_requests = successful + failed + errors
          /\ Len(latencies) = total_requests
          /\ total_requests = Sum(s_done, Threads))
  /\ [][s_invalid' # s_invalid => UNCHANGED stats]_vars

\* two threads have each completed a call, one of them an error, and a call
\* with another method would have been a third
C29_Witness ==
  /\ stats_lock = 0
  /\ \A t \in Threads : s_done[t] >= 1
  /\ total_requests = 2
  /\ errors = 1
  /\ Len(latencies) = 2

\* a call with another method has been made next to a completed one
C29_WitnessInvalid ==
  /\ \E t \in Threads : s_invalid[t] = 1
  /\ total_requests = 1

\* C30: get_hit_count always terminates; it returns the incremented count at
\* the first successful cache.incr, retries only after a ConnectionError,
\* makes at most 6 cache.incr attempts, re-raises the ConnectionError when the
\* sixth fails, and retries never drops below 0.
C30_GetHitCountTerminates ==
  /\ (h_pc = "try" ~> h_pc \in {"returned", "raised"})
  /\ [](/\ retries >= 0
        /\ incr_attempts <= 6
        /\ h_pc = "returned" => h_result = [kind |-> "count", count |-> hits]
        /\ (h_pc \in {"except", "sleep"} \/ (h_pc = "try" /\ incr_attempts > 0))
             => h_result.kind = "ConnectionError"
        /\ (h_pc = "raised" /\ h_result.kind = "ConnectionError")
             => (incr_attempts = 6 /\ retries = 0)
        /\ (h_pc = "except" /\ incr_attempts = 6) => retries = 0)
  /\ [][h_result'.kind = "count" /\ h_result.kind # "count"
          => h_pc' = "returned" /\ hits' = hits + 1]_vars

\* the sixth attempt failed and the ConnectionError left get_hit_count, after
\* an earlier request was counted
C30_Witness ==
  /\ h_pc = "raised"
  /\ h_result.kind = "ConnectionError"
  /\ incr_attempts = 6
  /\ hits = 1

\* roughly: within a second
About == TicksPerSecond

\* C22: with duration > 20 the spike worker starts about duration/2 after
\* the start of the run, while the normal workers are still running, for
\* every number of threads.
C22_SpikeHalfway ==
  duration > SpikeThreshold =>
    /\ spike_start # -1 =>
         spike_start <= start_time + (duration * TicksPerSecond) \div 2 + About
    /\ (main \in {"wait", "shutdown", "errors", "finished"}
        /\ now > start_time + (duration * TicksPerSecond) \div 2 + About)
         => spike_start # -1

\* the spike worker has begun
C22_SpikeStarted == spike_start # -1 /\ duration > SpikeThreshold /\ total_requests > 0

\* C24: in every handler of app, auth and db the root span is set to error
\* exactly when the handler raises an HTTPException: a root span marked as
\* error goes with a pending or delivered non-200 result, and a finished
\* request has its root span in error if and only if its status is not 200.
C24_RootErrorIffRaised ==
  /\ (spans # <<>> /\ spans[1].status = "error") => ret.status \notin {0, 200}
  /\ Finished =>
       /\ spans # <<>>
       /\ spans[1].name = RootSpanName(handler)
       /\ spans[1].status = "error" <=> response.status # 200

\* get_preset_data has raised 404 for an unknown preset after the token was
\* accepted, and its root span was closed in error
C24_Witness ==
  /\ Finished
  /\ handler = "get_preset_data"
  /\ response.status = 404
  /\ spans[1].status = "error"
  /\ spans[1].ended = 1
  /\ calls[1].outcome = Resp(200)

\* a request that returned 200 left its root span unmarked
C24_WitnessOk ==
  /\ Finished
  /\ handler = "delete_data"
  /\ response.status = 200
  /\ spans[1].status # "error"

\* the observations the instruments of service sv hold
Counted(sv) == BagCardinality(request_counter[sv])
Timed(sv) == BagCardinality(request_duration[sv])

\* C25: each request adds to the request counter exactly once, before its
\* root span is opened and before any credential check, so rejected requests
\* are counted; the duration is recorded at most once and only by a request
\* that returns 200, so the duration observations of a service are as many
\* as its 200 responses and never more than its counter.
C25_CountedOnceTimedOn200 ==
  /\ [](pc # "idle" =>
          /\ Cardinality(Observed("http_requests_total")) = 1
          /\ obs[1].inst = "http_requests_total"
          /\ Cardinality(Observed("http_request_duration_seconds")) <= 1
          /\ Observed("http_request_duration_seconds") # {} => ret.status = 200)
  /\ [](pc = "root" => spans = <<>> /\ calls = <<>>)
  /\ [](Finished =>
          (Cardinality(Observed("http_request_duration_seconds")) = 1
             <=> response.status = 200))
  /\ [](\A sv \in Services : Timed(sv) <= Counted(sv))
  /\ [](Counted("app") + Counted("auth") + Counted("db") = nreq)
  /\ [][\A sv \in Services :
          /\ Counted(sv)' = Counted(sv) + (IF nreq' # nreq /\ sv = Service(handler') THEN 1 ELSE 0)
          /\ Timed(sv)' = Timed(sv) +
               (IF sv = Service(handler') /\ ret'.status = 200 /\ ret.status # 200
                  THEN 1 ELSE 0)]_vars

\* a request without credentials was rejected after a request that returned
\* 200: both are counted, one is timed
C25_Witness ==
  /\ Finished
  /\ nreq = 2
  /\ response.status = 401
  /\ Observed("http_request_duration_seconds") = {}
  /\ Counted(Service(handler)) = 2
  /\ Timed(Service(handler)) = 1

\* the ids the /store calls of a seed request answered with 200, in call order
SeededIds ==
  LET ok == SelectSeq(calls, LAMBDA c : /\ c.svc = "db"
                                        /\ c.outcome.kind = "response"
                                        /\ c.outcome.status = 200)
  IN [k \in 1..Len(ok) |-> ok[k].outcome.id]

\* C26: once the token is validated seed_preset_data attempts each of the
\* three seed items exactly once, in order, whatever the earlier attempts
\* met, and returns 200 "seeded" with items_created = the number of /store
\* calls answered 200 and item_ids = their ids in seed order.
C26_SeedAttemptsAllItems ==
  (/\ Finished
   /\ handler = "seed_preset_data"
   /\ Len(calls) >= 1
   /\ calls[1].outcome = Resp(200)) =>
     /\ Len(calls) = 1 + NumSeedItems
     /\ \A k \in 1..NumSeedItems :
          /\ calls[1 + k].svc = "db"
          /\ calls[1 + k].op = "/store"
          /\ calls[1 + k].item = k
          /\ calls[1 + k].outcome # Pending
     /\ response.status = 200
     /\ response.body.kind = "seeded"
     /\ response.body.n = Len(SeededIds)
     /\ response.body.ids = SeededIds

\* the first item could not be stored, the second was refused, the third was
\* stored: the request returned its id alone
C26_Witness ==
  /\ Finished
  /\ handler = "seed_preset_data"
  /\ Len(calls) = 1 + NumSeedItems
  /\ calls[2].outcome.kind = "RequestError"
  /\ calls[3].outcome = Resp(500)
  /\ calls[4].outcome.status = 200
  /\ response.body.n = 1
  /\ response.body.ids = <<calls[4].outcome.id>>

\* the db handlers that write
Writers == {"store_data", "delete_data", "create_user"}

\* C27: every db handler that opens a connection closes it exactly once on
\* every exit path (200, 404/409, 500 after a database error), so no
\* connection is left open after a completed request; store_data, delete_data
\* and create_user roll back on a database error and leave items and users
\* as they were.
C27_ConnectionClosedOnce ==
  /\ [](handler \in DbHandlers =>
          /\ conn.opened <= 1
          /\ conn.closed <= conn.opened
          /\ Finished => conn.closed = conn.opened
          /\ (Finished /\ response.status \in {200, 404, 409, 500}) => conn.closed = 1
          /\ (Finished /\ handler \in Writers) =>
                (conn.rollbacks = 1 <=> response.status \in {409, 500})
          /\ conn.rollbacks <= 1)
  /\ [][(handler \in Writers /\ ret'.status \in {409, 500} /\ ret.status = 0)
          => (conn'.rollbacks = 1 /\ UNCHANGED <<items, users>>)]_vars

\* a delete hit a database error after an item was stored: rolled back,
\* answered 500, the connection closed and the item still there
C27_Witness ==
  /\ Finished
  /\ handler = "delete_data"
  /\ response.status = 500
  /\ conn = [opened |-> 1, closed |-> 1, rollbacks |-> 1]
  /\ \E r \in items : r.id = arg

\* the step in which a db handler gets the result of its SQL statement
Executes(h) == handler = h /\ pc = "execute" /\ pc' = "finally"

C28_WitnessRetrieve ==
  /\ Finished
  /\ handler = "retrieve_data"
  /\ response.status = 200
  /\ response.body.data \in Data
  /\ \E r \in items : r.id = arg /\ r.data = dumps(response.body.data)

\* the calls of the request as the called service sees them, and their outcomes
Targets == [k \in 1..Len(calls) |-> Target(calls[k].svc, calls[k].op, calls[k].item)]
Outcomes == [k \in 1..Len(calls) |-> calls[k].outcome]

\* the step in which a db handler gets the result of its SQL statement
ExecutesSql == handler \in DbHandlers /\ pc = "execute" /\ pc' = "finally"

\* C23: each instrumented handler of app, auth and db returns the status and
\* body, makes the collaborator calls and updates the tables as its baseline
\* counterpart does for the same request, the same answers of the
\* collaborators, of jwt.decode and of SQLite, and the same table contents.
C23_EquivalentToBaseline ==
  /\ [](Finished => response = ret)
  /\ []((Finished /\ handler \in AppHandlers \cup AuthHandlers) =>
          LET b == baseline_service(handler, authorization, arg, credentials, Outcomes, drawn)
          IN /\ response = b.response
             /\ Targets = b.calls)
  /\ []((Finished /\ handler \in DbHandlers) =>
          /\ calls = <<>>
          /\ conn.closed = conn.opened
          /\ conn.opened = 0 =>
               LET b == baseline_db(handler, authorization, arg, credentials, items, users,
                                    drawn, "")
               IN response = b.response /\ b.opened = 0)
  /\ [][ExecutesSql =>
          LET b == baseline_db(handler, authorization, arg, credentials, items, users,
                               drawn', ret'.body.id)
          IN /\ ret' = b.response
             /\ items' = b.items
             /\ users' = b.users
             /\ conn'.opened = b.opened
             /\ conn'.rollbacks = b.rollbacks]_vars
  /\ [][~ExecutesSql => UNCHANGED <<items, users>>]_vars

\* create_data found the db service unreachable after the token was accepted
\* and answered 503, as the baseline does after the same two calls
C23_Witness ==
  /\ Finished
  /\ handler = "create_data"
  /\ Outcomes = <<Resp(200), RequestError>>
  /\ response = HTTPException(503, "Database service unavailable")
  /\ Targets = baseline_create_data(authorization, Outcomes).calls

\* create_user met a user that exists and answered 409
C23_WitnessDb ==
  /\ Finished
  /\ handler = "create_user"
  /\ response = baseline_create_user(credentials, items, users, "ok").response
  /\ response.status = 409

====
